---- MODULE Spec2Model ----
\* Field-mapping transformation engine (FieldMappingService.TransformData, its
\* nested path accessor and the transformations applyTransformation dispatches
\* to), the MigrationLog lifecycle (HandleShopwareWebhook, UpdateMigrationStatus,
\* ExecuteDataflow) and the dataflow requests (CreateDataflow, UpdateDataflow,
\* DeleteDataflow) of the shopware-shopify integration.
EXTENDS Integers, Sequences, FiniteSets, TLC

\* ---------------------------------------------------------------------------
\* Go strings.  A Go string is a sequence of one-character strings, so that
\* strings.Split, strings.Index, slicing and strconv.Atoi act on characters.
\* ---------------------------------------------------------------------------

Digits == <<"0", "1", "2", "3", "4", "5", "6", "7", "8", "9">>

IsDigit(c) == \E d \in 1..10 : Digits[d] = c

DigitVal(c) == (CHOOSE d \in 1..10 : Digits[d] = c) - 1

\* strings.Contains(s, c) for a one-character c
Contains(s, c) == \E i \in 1..Len(s) : s[i] = c

\* strings.Index(s, c): 0-based position of the first c, -1 when absent
Index(s, c) ==
    IF Contains(s, c)
    THEN (CHOOSE i \in 1..Len(s) : s[i] = c /\ \A j \in 1..(i - 1) : s[j] # c) - 1
    ELSE -1

\* the Go slice expression s[lo:hi] (callers check lo <= hi first; Go panics otherwise)
Slice(s, lo, hi) == SubSeq(s, lo + 1, hi)

RECURSIVE Split(_, _)
\* strings.Split(s, sep) for a one-character sep
Split(s, sep) ==
    IF Contains(s, sep)
    THEN <<Slice(s, 0, Index(s, sep))>> \o Split(Slice(s, Index(s, sep) + 1, Len(s)), sep)
    ELSE <<s>>

RECURSIVE DecimalValue(_)
DecimalValue(ds) ==
    IF Len(ds) = 0 THEN 0
    ELSE 10 * DecimalValue(SubSeq(ds, 1, Len(ds) - 1)) + DigitVal(ds[Len(ds)])

\* strconv.Atoi: an optional sign followed by at least one decimal digit
Atoi(s) ==
    LET signed == Len(s) > 0 /\ s[1] \in {"+", "-"}
        body   == IF signed THEN Tail(s) ELSE s
    IN  IF Len(body) = 0 \/ \E i \in 1..Len(body) : ~IsDigit(body[i])
        THEN [ok |-> FALSE, val |-> 0]
        ELSE [ok |-> TRUE,
              val |-> IF signed /\ s[1] = "-" THEN 0 - DecimalValue(body)
                      ELSE DecimalValue(body)]

RECURSIVE Itoa(_)
\* decimal digits of a non-negative integer (fmt's %d / %v of an int)
Itoa(n) ==
    IF n < 10 THEN <<Digits[n + 1]>> ELSE Itoa(n \div 10) \o <<Digits[(n % 10) + 1]>>

\* ---------------------------------------------------------------------------
\* interface{} values and the heap.  Maps and slices are reference types: a
\* value of tag "map" or "arr" holds the address n of a heap object, so that
\* two trees can share a sub-tree exactly as the Go values do.
\* ---------------------------------------------------------------------------

Nil      == [t |-> "nil",  s |-> <<>>, n |-> 0]
Str(x)   == [t |-> "str",  s |-> x,    n |-> 0]
Num(k)   == [t |-> "num",  s |-> <<>>, n |-> k]   \* float64 of a JSON number
IntV(k)  == [t |-> "int",  s |-> <<>>, n |-> k]   \* Go int
BoolV(b) == [t |-> "bool", s |-> <<>>, n |-> IF b THEN 1 ELSE 0]
MapRef(a) == [t |-> "map", s |-> <<>>, n |-> a]
ArrRef(a) == [t |-> "arr", s |-> <<>>, n |-> a]

EmptyFields == [k \in {} |-> Nil]

MapObj(f) == [k |-> "map", m |-> f, e |-> <<>>]
ArrObj(q) == [k |-> "arr", m |-> EmptyFields, e |-> q]

\* make(map[string]interface{}) / a fresh backing array: the next free address
NewAddr(h) == Len(h) + 1
Alloc(h, o) == Append(h, o)

\* current[key] = v on the map at address a
PutField(h, a, key, v) ==
    [h EXCEPT ![a].m = [x \in (DOMAIN h[a].m) \cup {key} |->
                            IF x = key THEN v ELSE h[a].m[x]]]

\* arr[i] = v (0-based i) on the backing array at address a
PutElem(h, a, i, v) == [h EXCEPT ![a].e[i + 1] = v]

HasField(h, a, key) == key \in DOMAIN h[a].m

\* make([]interface{}, n): n nil elements
NilSeq(n) == [i \in 1..n |-> Nil]

\* ---------------------------------------------------------------------------
\* Nested path accessor
\* ---------------------------------------------------------------------------

\* strings.Contains(part, "[") && strings.Contains(part, "]")
IsIndexed(part) == Contains(part, "[") /\ Contains(part, "]")

\* part[:strings.Index(part, "[")]
PartKey(part) == Slice(part, 0, Index(part, "["))

\* part[strings.Index(part, "[")+1 : strings.Index(part, "]")] panics when "]" precedes "["
BadSlice(part) == Index(part, "[") + 1 > Index(part, "]")

PartIndexStr(part) == Slice(part, Index(part, "[") + 1, Index(part, "]"))

GetOk(v)   == [err |-> "", val |-> v]
GetErr(e)  == [err |-> e, val |-> Nil]

RECURSIVE getLoop(_, _, _, _)

\* getIndexed without the bounds check: an index past the end reads as nil
getIndexed_Unbounded(h, current, parts, i, key, a) ==
    IF ~a.ok THEN GetErr("invalid_array_index")
    ELSE IF current.t # "map" THEN GetErr("parent_not_object")
    ELSE IF ~(HasField(h, current.n, key) /\ h[current.n].m[key].t = "arr")
         THEN GetErr("not_an_array")
    ELSE IF a.val < 0 \/ a.val >= Len(h[h[current.n].m[key].n].e)
         THEN getLoop(h, Nil, parts, i + 1)
    ELSE getLoop(h, h[h[current.n].m[key].n].e[a.val + 1], parts, i + 1)

\* an indexed part "key[index]" of getNestedValue, index being Atoi's result a
getIndexed(h, current, parts, i, key, a) ==
    IF ~a.ok THEN GetErr("invalid_array_index")
    ELSE IF current.t # "map" THEN GetErr("parent_not_object")
    ELSE IF ~(HasField(h, current.n, key) /\ h[current.n].m[key].t = "arr")
         THEN GetErr("not_an_array")
    ELSE IF a.val < 0 \/ a.val >= Len(h[h[current.n].m[key].n].e)
         THEN GetErr("index_out_of_bounds")
    ELSE getLoop(h, h[h[current.n].m[key].n].e[a.val + 1], parts, i + 1)

\* the body of getNestedValue's loop over parts, from part i (1-based) with `current`
getLoop(h, current, parts, i) ==
    IF i > Len(parts) THEN GetOk(current)
    ELSE IF IsIndexed(parts[i])
         THEN IF BadSlice(parts[i]) THEN GetErr("panic_slice_bounds")
              ELSE getIndexed(h, current, parts, i, PartKey(parts[i]),
                              Atoi(PartIndexStr(parts[i])))
         ELSE IF current.t # "map" THEN GetErr("parent_not_object")
              ELSE IF ~HasField(h, current.n, parts[i]) THEN GetErr("field_not_found")
              ELSE getLoop(h, h[current.n].m[parts[i]], parts, i + 1)

\* getNestedValue(obj, path) on heap h; obj is the address of the root map
getNestedValue(h, obj, path) == getLoop(h, MapRef(obj), Split(path, "."), 1)

SetOk(h)      == [h |-> h, err |-> ""]
SetErr(h, e)  == [h |-> h, err |-> e]

Ensured(h, err, arr) == [h |-> h, err |-> err, arr |-> arr]

\* "Ensure the array is big enough": a shorter array is replaced by a copy of
\* length index+1; arr is the address of the backing array current[key] ends up with
EnsureBigEnough(h, cur, key, index, v) ==
    IF v.t # "arr" THEN Ensured(h, "not_an_array", 0)
    ELSE IF index >= Len(h[v.n].e)
         THEN Ensured(PutField(Alloc(h, ArrObj([j \in 1..(index + 1) |->
                                   IF j <= Len(h[v.n].e) THEN h[v.n].e[j] ELSE Nil])),
                               cur, key, ArrRef(NewAddr(h))),
                      "", NewAddr(h))
         ELSE Ensured(h, "", v.n)

\* "Ensure the key exists and is an array", then EnsureBigEnough: the steps the
\* intermediate and the last indexed part have in common
EnsureArray(h, cur, key, index) ==
    IF HasField(h, cur, key) THEN EnsureBigEnough(h, cur, key, index, h[cur].m[key])
    ELSE IF index + 1 < 0 THEN Ensured(h, "panic_makeslice", 0)
    ELSE EnsureBigEnough(PutField(Alloc(h, ArrObj(NilSeq(index + 1))), cur, key,
                                  ArrRef(NewAddr(h))),
                         cur, key, index, ArrRef(NewAddr(h)))

\* "arr[index] = value" of the last part, en being what EnsureArray returned
setLastIndexed(en, index, value) ==
    IF en.err # "" THEN SetErr(en.h, en.err)
    ELSE IF index < 0 THEN SetErr(en.h, "panic_index_range")
    ELSE SetOk(PutElem(en.h, en.arr, index, value))

\* the last part when it is indexed, a being Atoi's result
setLastParsed(h, cur, key, a, value) ==
    IF ~a.ok THEN SetErr(h, "invalid_array_index")
    ELSE setLastIndexed(EnsureArray(h, cur, key, a.val), a.val, value)

\* "Set the value at the last part"
setLast(h, cur, lastPart, value) ==
    IF IsIndexed(lastPart)
    THEN IF BadSlice(lastPart) THEN SetErr(h, "panic_slice_bounds")
         ELSE setLastParsed(h, cur, PartKey(lastPart), Atoi(PartIndexStr(lastPart)), value)
    ELSE SetOk(PutField(h, cur, lastPart, value))

RECURSIVE setLoop(_, _, _, _, _)

\* "ensure the array element is an object" and descend into it
setDescendElem(h, arr, index, parts, i, value) ==
    IF h[arr].e[index + 1].t = "map"
    THEN setLoop(h, h[arr].e[index + 1].n, parts, i + 1, value)
    ELSE SetErr(h, "element_not_object")

\* an intermediate indexed part, en being what EnsureArray returned.  The
\* loop descends into the element only "if i < len(parts)-2" (i is the Go loop
\* variable, here i-1); otherwise current stays where it is.
setIndexed(en, cur, index, parts, i, value) ==
    IF en.err # "" THEN SetErr(en.h, en.err)
    ELSE IF (i - 1) < Len(parts) - 2
         THEN IF index < 0 THEN SetErr(en.h, "panic_index_range")
              ELSE IF en.h[en.arr].e[index + 1] = Nil
                   THEN setDescendElem(PutElem(Alloc(en.h, MapObj(EmptyFields)), en.arr,
                                               index, MapRef(NewAddr(en.h))),
                                       en.arr, index, parts, i, value)
                   ELSE setDescendElem(en.h, en.arr, index, parts, i, value)
         ELSE setLoop(en.h, cur, parts, i + 1, value)

\* an intermediate indexed part, a being Atoi's result
setParsed(h, cur, key, a, parts, i, value) ==
    IF ~a.ok THEN SetErr(h, "invalid_array_index")
    ELSE setIndexed(EnsureArray(h, cur, key, a.val), cur, a.val, parts, i, value)

\* an intermediate plain part, once current[part] exists
setDescendField(h, cur, part, parts, i, value) ==
    IF h[cur].m[part].t # "map" THEN SetErr(h, "not_an_object")
    ELSE setLoop(h, h[cur].m[part].n, parts, i + 1, value)

\* setNestedValue's loop "for all but the last part" from part i (1-based), then
\* the assignment of the last part
setLoop(h, cur, parts, i, value) ==
    IF i > Len(parts) - 1 THEN setLast(h, cur, parts[Len(parts)], value)
    ELSE IF IsIndexed(parts[i])
         THEN IF BadSlice(parts[i]) THEN SetErr(h, "panic_slice_bounds")
              ELSE setParsed(h, cur, PartKey(parts[i]), Atoi(PartIndexStr(parts[i])),
                             parts, i, value)
         ELSE IF HasField(h, cur, parts[i])
              THEN setDescendField(h, cur, parts[i], parts, i, value)
              ELSE setDescendField(PutField(Alloc(h, MapObj(EmptyFields)), cur, parts[i],
                                            MapRef(NewAddr(h))),
                                   cur, parts[i], parts, i, value)

\* setNestedValue(obj, path, value) on heap h; obj is the address of the root map
setNestedValue(h, obj, path, value) == setLoop(h, obj, Split(path, "."), 1, value)

Panics == {"panic_slice_bounds", "panic_makeslice", "panic_index_range"}

\* ---------------------------------------------------------------------------
\* Transformation dispatcher
\* ---------------------------------------------------------------------------

S_true  == <<"t", "r", "u", "e">>
S_false == <<"f", "a", "l", "s", "e">>
S_nil   == <<"<", "n", "i", "l", ">">>
S_int   == <<"i", "n", "t">>
S_string == <<"s", "t", "r", "i", "n", "g">>
S_float == <<"f", "l", "o", "a", "t">>
S_bool  == <<"b", "o", "o", "l">>
S_default == <<"_", "d", "e", "f", "a", "u", "l", "t">>
S_to_global == <<"t", "o", "_", "g", "l", "o", "b", "a", "l">>
S_from_global == <<"f", "r", "o", "m", "_", "g", "l", "o", "b", "a", "l">>
S_gid_prefix == <<"g", "i", "d", ":", "/", "/", "s", "h", "o", "p", "i", "f", "y", "/">>
S_placeholder == <<"{", "{", "v", "a", "l", "u", "e", "}", "}">>

\* fmt.Sprintf("%v", value).  Numbers in the model are integers; a map or a
\* slice prints as the empty container.
Sprintv(v) ==
    CASE v.t = "str"  -> v.s
      [] v.t = "int"  -> IF v.n < 0 THEN <<"-">> \o Itoa(0 - v.n) ELSE Itoa(v.n)
      [] v.t = "num"  -> IF v.n < 0 THEN <<"-">> \o Itoa(0 - v.n) ELSE Itoa(v.n)
      [] v.t = "bool" -> IF v.n = 1 THEN S_true ELSE S_false
      [] v.t = "nil"  -> S_nil
      [] v.t = "map"  -> <<"m", "a", "p", "[", "]">>
      [] v.t = "arr"  -> <<"[", "]">>

\* strconv.ParseBool
ParseBool(s) ==
    IF s \in {<<"1">>, <<"t">>, <<"T">>, S_true, <<"T", "R", "U", "E">>, <<"T", "r", "u", "e">>}
    THEN [ok |-> TRUE, val |-> TRUE]
    ELSE IF s \in {<<"0">>, <<"f">>, <<"F">>, S_false, <<"F", "A", "L", "S", "E">>,
                   <<"F", "a", "l", "s", "e">>}
    THEN [ok |-> TRUE, val |-> FALSE]
    ELSE [ok |-> FALSE, val |-> FALSE]

RECURSIVE ReplaceAll(_, _, _)
\* strings.ReplaceAll(s, old, new) for a non-empty old
ReplaceAll(s, old, new) ==
    IF Len(s) < Len(old) THEN s
    ELSE IF SubSeq(s, 1, Len(old)) = old
         THEN new \o ReplaceAll(SubSeq(s, Len(old) + 1, Len(s)), old, new)
         ELSE <<s[1]>> \o ReplaceAll(Tail(s), old, new)

\* convertToGraphQLGlobalID: fmt.Sprintf("gid://shopify/%s/%s", resourceType, id)
convertToGraphQLGlobalID(resourceType, id) == S_gid_prefix \o resourceType \o <<"/">> \o id

\* convertFromGraphQLGlobalID
convertFromGraphQLGlobalID(globalID) ==
    LET parts == Split(globalID, "/") IN
    IF Len(parts) < 4 THEN globalID ELSE parts[Len(parts)]

\* A TransformConfig as json.Unmarshal sees it: valid is FALSE for a string the
\* variant's Unmarshal rejects (the empty string included); the other fields are
\* the decoded members (zero values when absent).
NoTable == [k \in {} |-> Nil]

Config(valid, type, table, template, resource, direction) ==
    [valid |-> valid, type |-> type, table |-> table, template |-> template,
     resource_type |-> resource, direction |-> direction,
     source_path |-> <<>>, dest_path |-> <<>>, mapping |-> NoTable,
     base_url |-> <<>>, entity_type |-> <<>>, property |-> <<>>]

NoConfig == Config(FALSE, <<>>, NoTable, <<>>, <<>>, <<>>)

TrOk(v)  == [val |-> v, err |-> ""]
TrErr(e) == [val |-> Nil, err |-> e]

\* a transformation's outcome together with the heap it leaves
On(h, tr) == [h |-> h, val |-> tr.val, err |-> tr.err]

S_url == <<"u", "r", "l">>
S_alt == <<"a", "l", "t">>
S_http == <<"h", "t", "t", "p">>
S_IMAGE == <<"I", "M", "A", "G", "E">>
S_mediaContentType == <<"m", "e", "d", "i", "a", "C", "o", "n", "t", "e", "n", "t", "T", "y", "p", "e">>
S_originalSource == <<"o", "r", "i", "g", "i", "n", "a", "l", "S", "o", "u", "r", "c", "e">>
S_position == <<"p", "o", "s", "i", "t", "i", "o", "n">>
S_manufacturer == <<"m", "a", "n", "u", "f", "a", "c", "t", "u", "r", "e", "r">>
S_category == <<"c", "a", "t", "e", "g", "o", "r", "y">>

\* strings.HasPrefix / strings.HasSuffix
HasPrefix(s, p) == Len(s) >= Len(p) /\ SubSeq(s, 1, Len(p)) = p
HasSuffix(s, p) == Len(s) >= Len(p) /\ SubSeq(s, Len(s) - Len(p) + 1, Len(s)) = p

\* fmt.Sprintf("%s", v): a string prints as itself, another value as %!s(type=value)
Sprints(v) ==
    CASE v.t = "str"  -> v.s
      [] v.t = "num"  -> <<"%", "!", "s", "(", "f", "l", "o", "a", "t", "6", "4", "=">>
                           \o Sprintv(v) \o <<")">>
      [] v.t = "int"  -> <<"%", "!", "s", "(", "i", "n", "t", "=">> \o Sprintv(v) \o <<")">>
      [] v.t = "bool" -> <<"%", "!", "s", "(", "b", "o", "o", "l", "=">> \o Sprintv(v) \o <<")">>
      [] OTHER -> Sprintv(v)

\* convertValue with a failed parse replaced by the type's zero value
convertValue_ZeroOnFailure(value, config) ==
    CASE config.type = S_string -> TrOk(Str(Sprintv(value)))
      [] config.type = S_int ->
           IF value.t = "str" THEN TrOk(IntV(Atoi(value.s).val))
           ELSE TrErr("value_is_not_a_string")
      [] config.type = S_float ->
           IF value.t = "str" THEN TrOk(Num(Atoi(value.s).val))
           ELSE TrErr("value_is_not_a_string")
      [] config.type = S_bool ->
           IF value.t = "str" THEN TrOk(BoolV(ParseBool(value.s).val))
           ELSE TrErr("value_is_not_a_string")
      [] OTHER -> TrErr("unsupported_conversion_type")

\* applyTransformation, case convert: "switch config.Type".  strconv.ParseFloat
\* is modelled on integer syntax (the numbers of the model are integers).
convertValue(value, config) ==
    CASE config.type = S_string -> TrOk(Str(Sprintv(value)))
      [] config.type = S_int ->
           IF value.t = "str"
           THEN IF Atoi(value.s).ok THEN TrOk(IntV(Atoi(value.s).val))
                ELSE TrErr("error_converting_to_int")
           ELSE TrErr("value_is_not_a_string")
      [] config.type = S_float ->
           IF value.t = "str"
           THEN IF Atoi(value.s).ok THEN TrOk(Num(Atoi(value.s).val))
                ELSE TrErr("error_converting_to_float")
           ELSE TrErr("value_is_not_a_string")
      [] config.type = S_bool ->
           IF value.t = "str"
           THEN IF ParseBool(value.s).ok THEN TrOk(BoolV(ParseBool(value.s).val))
                ELSE TrErr("error_converting_to_bool")
           ELSE TrErr("value_is_not_a_string")
      [] OTHER -> TrErr("unsupported_conversion_type")

\* mapValue passing an unmatched value through
mapValue_PassThrough(value, config) ==
    IF Sprintv(value) \in DOMAIN config.table THEN TrOk(config.table[Sprintv(value)])
    ELSE TrOk(value)

\* applyTransformation, case map: the lookup of fmt.Sprintf("%v", value), then
\* of "_default", in the decoded table
mapValue(value, config) ==
    IF Sprintv(value) \in DOMAIN config.table THEN TrOk(config.table[Sprintv(value)])
    ELSE IF S_default \in DOMAIN config.table THEN TrOk(config.table[S_default])
    ELSE TrErr("no_mapping_found")

\* graphqlID taking the first path component after the scheme
graphqlID_FirstComponent(value, config) ==
    IF value.t # "str" THEN TrErr("value_is_not_a_string")
    ELSE IF config.direction = S_to_global
         THEN TrOk(Str(convertToGraphQLGlobalID(config.resource_type, value.s)))
    ELSE IF config.direction = S_from_global
         THEN TrOk(Str(IF Len(Split(value.s, "/")) < 4 THEN value.s
                       ELSE Split(value.s, "/")[4]))
    ELSE TrErr("invalid_direction")

\* applyTransformation, case graphql_id
graphqlID(value, config) ==
    IF value.t # "str" THEN TrErr("value_is_not_a_string")
    ELSE IF config.direction = S_to_global
         THEN TrOk(Str(convertToGraphQLGlobalID(config.resource_type, value.s)))
    ELSE IF config.direction = S_from_global
         THEN TrOk(Str(convertFromGraphQLGlobalID(value.s)))
    ELSE TrErr("invalid_direction")

\* transformMedia: 'if urlVal, found := mediaMap["url"]; found && urlVal != nil'
MediaString(h, a, key) ==
    IF HasField(h, a, key) /\ h[a].m[key] # Nil THEN Sprints(h[a].m[key]) ELSE <<>>

\* FullURL prefixing every url
FullURL_AlwaysPrefixed(base, url) ==
    IF base # <<>>
    THEN IF HasSuffix(base, <<"/">>) THEN base \o url ELSE base \o <<"/">> \o url
    ELSE url

\* transformMedia: "Construct the full URL"
FullURL(base, url) ==
    IF base # <<>> /\ ~HasPrefix(url, S_http)
    THEN IF HasSuffix(base, <<"/">>) THEN base \o url ELSE base \o <<"/">> \o url
    ELSE url

\* transformMedia: destItem of the element at 0-based position i-1
DestMediaItem(h, a, i, config) ==
    MapObj([k \in {S_mediaContentType, S_originalSource, S_alt, S_position} |->
              CASE k = S_mediaContentType -> Str(S_IMAGE)
                [] k = S_originalSource ->
                     Str(FullURL(config.base_url, MediaString(h, a, S_url)))
                [] k = S_alt -> Str(MediaString(h, a, S_alt))
                [] OTHER -> IntV(i)])

RECURSIVE mediaItems(_, _, _, _, _)
\* transformMedia's loop "for i, item := range sourceArray" from element i
\* (1-based), acc being destMedia so far; an item that is no object is skipped
mediaItems(h, elems, i, acc, config) ==
    IF i > Len(elems) THEN On(Alloc(h, ArrObj(acc)), TrOk(ArrRef(NewAddr(h))))
    ELSE IF elems[i].t # "map" THEN mediaItems(h, elems, i + 1, acc, config)
    ELSE mediaItems(Alloc(h, DestMediaItem(h, elems[i].n, i, config)), elems, i + 1,
                    Append(acc, MapRef(NewAddr(h))), config)

\* transformMedia(value, config)
transformMedia(h, value, config) ==
    IF value.t # "arr" THEN On(h, TrErr("media_value_is_not_an_array"))
    ELSE mediaItems(h, h[value.n].e, 1, <<>>, config)

RECURSIVE sourceWalk(_, _, _, _)
\* transformSingleObject: the walk along config.SourcePath from component i in
\* the map at cur; ok is FALSE for "Path doesn't exist, return empty result"
sourceWalk(h, cur, paths, i) ==
    IF i = Len(paths)
    THEN [ok |-> TRUE, val |-> IF HasField(h, cur, paths[i]) THEN h[cur].m[paths[i]] ELSE Nil]
    ELSE IF HasField(h, cur, paths[i]) /\ h[cur].m[paths[i]].t = "map"
         THEN sourceWalk(h, h[cur].m[paths[i]].n, paths, i + 1)
         ELSE [ok |-> FALSE, val |-> Nil]

\* transformSingleObject: "Extract source value using source path"
ProjectSource(h, item, config) ==
    IF config.source_path = <<>> THEN [ok |-> TRUE, val |-> MapRef(item)]
    ELSE sourceWalk(h, item, Split(config.source_path, "."), 1)

\* transformSingleObject: "Apply mapping if present" (a lookup in a nil map finds nothing)
MappedValue(config, sourceValue) ==
    IF sourceValue.t = "str" /\ sourceValue.s \in DOMAIN config.mapping
    THEN config.mapping[sourceValue.s]
    ELSE sourceValue

RECURSIVE destWalk(_, _, _, _, _)
\* transformSingleObject: "Put the mapped value at the destination path" from
\* component i in the map at cur
destWalk(h, cur, paths, i, v) ==
    IF i = Len(paths) THEN PutField(h, cur, paths[i], v)
    ELSE IF HasField(h, cur, paths[i])
         THEN destWalk(h, h[cur].m[paths[i]].n, paths, i + 1, v)
         ELSE destWalk(PutField(Alloc(h, MapObj(EmptyFields)), cur, paths[i],
                                MapRef(NewAddr(h))),
                       NewAddr(h), paths, i + 1, v)

\* transformSingleObject once result (at r, on heap h) is made and the source
\* value src is extracted
FillResult(h, r, item, config, src) ==
    IF ~src.ok THEN On(h, TrOk(MapRef(r)))
    ELSE IF config.dest_path = <<>>
         THEN On([h EXCEPT ![r].m = h[item].m], TrOk(MapRef(r)))
         ELSE On(destWalk(h, r, Split(config.dest_path, "."), 1,
                          MappedValue(config, src.val)),
                 TrOk(MapRef(r)))

\* transformSingleObject(item, config)
transformSingleObject(h, item, config) ==
    FillResult(Alloc(h, MapObj(EmptyFields)), NewAddr(h), item, config,
               ProjectSource(h, item, config))

RECURSIVE arrayItems(_, _, _, _, _)
\* transformArray: "destArray = append(destArray, destItem)" and on to the next item
appendItem(r, elems, i, acc, config) ==
    arrayItems(r.h, elems, i + 1, Append(acc, r.val), config)

\* transformArray's loop "for _, item := range sourceArray" from element i,
\* acc being destArray so far; an item that is no object is skipped
arrayItems(h, elems, i, acc, config) ==
    IF i > Len(elems) THEN On(Alloc(h, ArrObj(acc)), TrOk(ArrRef(NewAddr(h))))
    ELSE IF elems[i].t # "map" THEN arrayItems(h, elems, i + 1, acc, config)
    ELSE appendItem(transformSingleObject(h, elems[i].n, config), elems, i, acc, config)

\* transformArray(value, config)
transformArray(h, value, config) ==
    IF value.t = "arr" THEN arrayItems(h, h[value.n].e, 1, <<>>, config)
    ELSE IF value.t = "map"
         THEN appendItem(transformSingleObject(h, value.n, config), <<>>, 0, <<>>, config)
         ELSE On(h, TrErr("value_is_not_an_array_or_object"))

\* s.db.Table(name).Where("id = ?", strID).First(&row) and the property of the
\* row: up is FALSE when the query fails with an error other than
\* gorm.ErrRecordNotFound
lookupRow(up, table, strID, config, failure) ==
    IF ~up THEN TrErr(failure)
    ELSE IF strID \notin DOMAIN table THEN TrOk(Str(strID))
    ELSE IF config.property \in DOMAIN table[strID] THEN TrOk(table[strID][config.property])
    ELSE TrOk(Str(strID))

\* lookupEntity(value, config) against the side tables db
lookupEntity(db, value, config) ==
    IF Sprintv(value) = <<>> THEN TrErr("empty_entity_id")
    ELSE CASE config.entity_type = S_manufacturer ->
                lookupRow(db.up, db.manufacturer, Sprintv(value), config,
                          "error_looking_up_manufacturer")
           [] config.entity_type = S_category ->
                lookupRow(db.up, db.category, Sprintv(value), config,
                          "error_looking_up_category")
           [] OTHER -> [val |-> Str(Sprintv(value)), err |-> "unsupported_entity_type"]

\* applyTransformation(value, mapping) on heap h with the side tables db.  The
\* transform types format, json_path and metafield are not among the rules
\* drawn as inputs.
applyTransformation(h, db, value, mapping) ==
    CASE mapping.TransformType = "none" -> On(h, TrOk(value))
      [] mapping.TransformType = "convert" ->
           IF ~mapping.TransformConfig.valid THEN On(h, TrErr("invalid_transform_config"))
           ELSE On(h, convertValue(value, mapping.TransformConfig))
      [] mapping.TransformType = "map" ->
           IF ~mapping.TransformConfig.valid THEN On(h, TrErr("invalid_transform_config"))
           ELSE On(h, mapValue(value, mapping.TransformConfig))
      [] mapping.TransformType = "template" ->
           IF ~mapping.TransformConfig.valid THEN On(h, TrErr("invalid_transform_config"))
           ELSE On(h, TrOk(Str(ReplaceAll(mapping.TransformConfig.template, S_placeholder,
                                          Sprintv(value)))))
      [] mapping.TransformType = "graphql_id" ->
           IF ~mapping.TransformConfig.valid THEN On(h, TrErr("invalid_transform_config"))
           ELSE On(h, graphqlID(value, mapping.TransformConfig))
      [] mapping.TransformType = "array_map" ->
           IF ~mapping.TransformConfig.valid THEN On(h, TrErr("invalid_transform_config"))
           ELSE transformArray(h, value, mapping.TransformConfig)
      [] mapping.TransformType = "media_map" ->
           IF ~mapping.TransformConfig.valid THEN On(h, TrErr("invalid_transform_config"))
           ELSE transformMedia(h, value, mapping.TransformConfig)
      [] mapping.TransformType = "entity_lookup" ->
           IF ~mapping.TransformConfig.valid THEN On(h, TrErr("invalid_transform_config"))
           ELSE On(h, lookupEntity(db, value, mapping.TransformConfig))
      [] OTHER -> On(h, TrErr("unsupported_transformation_type"))

\* ---------------------------------------------------------------------------
\* State
\* ---------------------------------------------------------------------------

VARIABLES
    dataflows,      \* table dataflows: id -> row
    fieldMappings,  \* table field_mappings, in primary-key order
    logs,           \* table migration_logs, in primary-key order (row i has ID i)
    sent,           \* create-product / create-order requests sent to the destination
    pc,             \* position of the ExecuteDataflow request
    heap,           \* the Go heap of the running TransformData call
    heap0,          \* the heap as json.Unmarshal left it (the original source document)
    sourceObj,      \* address of sourceObj
    destObj,        \* address of destObj
    mappings,       \* the []FieldMapping ListFieldMappings returned
    idx,            \* 1-based position of the range loop
    result,         \* the *MappingResult returned
    trace,          \* what each iteration of the loop did, in order
    execLog,        \* ID of the MigrationLog the ExecuteDataflow request created
    hpc,            \* position of the HandleShopwareWebhook request
    hqueue,         \* the matched dataflows the handler has still to process
    hlog,           \* the handler's local migrationLog struct
    hexec,          \* what StartExecution returned to the handler
    started,        \* migration IDs the orchestrator has an execution for
    cb,             \* the UpdateMigrationStatus requests in flight
    clock,          \* time.Now()
    handled,        \* per log: the handler's finished handoff ("", "ok" or "failed")
    everInProgress, \* per log: the row has held status in_progress
    cbWrote,        \* per log: the row as the most recent callback saved it
    sideTables,     \* the tables lookupEntity queries (manufacturer, category)
    tpc,            \* position of a direct applyTransformation call
    tcall,          \* the calls made, each the heap, the value and the rule
    tresult,        \* what each call returned, and the heap it left
    derr,           \* the last dataflow request (create, update, delete) and its error
    del,            \* a DeleteDataflow call in progress: the statement it is at, and its id
    atree,          \* the tree getNestedValue and setNestedValue are called on directly
    acall           \* the last such call: its arguments, the tree before it and its result

engineVars == <<fieldMappings, pc, heap, heap0, sourceObj, destObj, mappings, idx,
                result, trace, execLog, sent>>
webhookVars == <<hpc, hqueue, hlog, hexec, started, cb, clock, handled, cbWrote>>
dispatchVars == <<sideTables, tpc, tcall, tresult>>
crudVars == <<derr, del>>
accessVars == <<atree, acall>>
vars == <<dataflows, logs, everInProgress, engineVars, webhookVars, dispatchVars, crudVars,
          accessVars>>

\* ---------------------------------------------------------------------------
\* Rows
\* ---------------------------------------------------------------------------

NoErr == [kind |-> "", field |-> <<>>, cause |-> ""]
Err(kind, field, cause) == [kind |-> kind, field |-> field, cause |-> cause]

NoMessage == [text |-> "", err |-> NoErr]
\* Message with the error left out of the text
Message_WithoutError(text, err) == [text |-> text, err |-> NoErr]

\* fmt.Sprintf("<text>: %v", err): the text and the error printed into it
Message(text, err) == [text |-> text, err |-> err]

\* models.MigrationLog; CompletedAt 0 is the nil pointer
MigrationLog(id, dataflowID, status, sourceIdentifier, sourcePayload) ==
    [ID |-> id, DataflowID |-> dataflowID, Status |-> status,
     SourceIdentifier |-> sourceIdentifier, DestIdentifier |-> "",
     ExecutionARN |-> "", SourcePayload |-> sourcePayload,
     TransformedPayload |-> "", ErrorMessage |-> NoMessage, CompletedAt |-> 0]

NoLog == MigrationLog(0, 0, "", "", "")

\* models.FieldMapping
FieldMapping(dataflowID, src, dst, required, default, ttype, config) ==
    [DataflowID |-> dataflowID, SourceField |-> src, DestField |-> dst,
     IsRequired |-> required, DefaultValue |-> default, TransformType |-> ttype,
     TransformConfig |-> config]

\* GetDataflow(id): First finds the row unless it is absent or soft-deleted
GetDataflowOk(id) == id \in DOMAIN dataflows /\ ~dataflows[id].Deleted

\* db.Create(&migrationLog): the row gets the next primary key
NextLogID == Len(logs) + 1

\* db.Save(&migrationLog): every column of the row is written from the struct
Save(rows, row) == [rows EXCEPT ![row.ID] = row]

\* MappingResult
MappingResult(data, err) == [Data |-> data, Error |-> err]
NoResult == MappingResult(Nil, NoErr)

\* ---------------------------------------------------------------------------
\* Inputs
\* ---------------------------------------------------------------------------

MaxRules == 3      \* field mappings stored per run
MaxLogs == 2       \* migration logs the webhook handler stores
MaxCallbacks == 2  \* status callbacks the orchestrator sends

Fields(pairs) == [k \in {p[1] : p \in pairs} |-> (CHOOSE p \in pairs : p[1] = k)[2]]

\* json.Unmarshal(sourceData, &sourceObj): the heap holding the decoded tree, its
\* root map at address 1.
\*   "D1": {"a": {"b": "x"}, "n": "42", "v": [{"s": "k"}]}
\*   "D2": {"a": "y", "n": 7}
\*   "bad": not a JSON object
Unmarshal(doc) ==
    CASE doc = "D1" ->
           [ok |-> TRUE,
            h  |-> << MapObj(Fields({ <<(<<"a">>), MapRef(2)>>,
                                      <<(<<"n">>), Str(<<"4", "2">>)>>,
                                      <<(<<"v">>), ArrRef(3)>> })),
                      MapObj(Fields({ <<(<<"b">>), Str(<<"x">>)>> })),
                      ArrObj(<<MapRef(4)>>),
                      MapObj(Fields({ <<(<<"s">>), Str(<<"k">>)>> })) >>]
      [] doc = "D2" ->
           [ok |-> TRUE,
            h  |-> << MapObj(Fields({ <<(<<"a">>), Str(<<"y">>)>>,
                                      <<(<<"n">>), Num(7)>> })) >>]
      [] OTHER -> [ok |-> FALSE, h |-> <<>>]

SourceDataInputs == {"D1", "D2", "bad"}

ConvertTo(type) == Config(TRUE, type, NoTable, <<>>, <<>>, <<>>)
MapWith(table)  == Config(TRUE, <<>>, table, <<>>, <<>>, <<>>)

\* the field mappings a dataflow may be given
MappingInputs ==
    { \* copy the sub-tree a to d
      FieldMapping(1, <<"a">>, <<"d">>, FALSE, <<>>, "none", NoConfig),
      \* write below d
      FieldMapping(1, <<"n">>, <<"d", ".", "b">>, FALSE, <<>>, "none", NoConfig),
      FieldMapping(1, <<"a", ".", "b">>, <<"e">>, FALSE, <<>>, "none", NoConfig),
      \* a required field no document has
      FieldMapping(1, <<"z">>, <<"f">>, TRUE, <<>>, "none", NoConfig),
      \* an optional absent field with a default
      FieldMapping(1, <<"z">>, <<"g">>, FALSE, <<"7">>, "convert", ConvertTo(S_int)),
      \* an optional absent field without one
      FieldMapping(1, <<"z">>, <<"g">>, FALSE, <<>>, "none", NoConfig),
      \* an indexed destination, as the default product mappings use
      FieldMapping(1, <<"n">>, <<"v", "[", "0", "]", ".", "s">>, FALSE, <<>>, "none", NoConfig),
      \* a destination below e
      FieldMapping(1, <<"n">>, <<"e", ".", "x">>, FALSE, <<>>, "none", NoConfig),
      \* a conversion of a value that may not be a string
      FieldMapping(1, <<"a">>, <<"h">>, FALSE, <<>>, "convert", ConvertTo(S_int)),
      \* an indexed source and a value table
      FieldMapping(1, <<"v", "[", "0", "]", ".", "s">>, <<"w", "[", "1", "]">>, FALSE, <<>>,
                   "map", MapWith(Fields({ <<(<<"k">>), Str(<<"K">>)>> }))) }

DataflowInputs == {1, 2, 3}

\* ---------------------------------------------------------------------------
\* Mapping pipeline: FieldMappingService.TransformData
\* ---------------------------------------------------------------------------

\* What one iteration of the loop did: stage is how far it got ("resolve",
\* "transform", "set" or "done"), cause the error of the call that stopped it.
Iteration(h, outcome, err, stage, cause, found, resolved, input, transformed) ==
    [h |-> h, outcome |-> outcome, Error |-> err, stage |-> stage, cause |-> cause,
     found |-> found, resolved |-> resolved, applied |-> stage # "resolve",
     input |-> input, transformed |-> transformed, wrote |-> stage = "done"]

\* MissingRequired with the return forgotten: the error is dropped and the loop goes on
MissingRequired_Continues(h, mapping, cause) ==
    Iteration(h, "next", NoErr, "resolve", cause, FALSE, Nil, Nil, Nil)

\* "if mapping.IsRequired { return &MappingResult{Error: ...}, nil }"
MissingRequired(h, mapping, cause) ==
    Iteration(h, "abort", Err("required_field_not_found", mapping.SourceField, ""),
              "resolve", cause, FALSE, Nil, Nil, Nil)

\* "// Skip this field": continue
MissingSkipped(h, mapping, cause) ==
    Iteration(h, "next", NoErr, "resolve", cause, FALSE, Nil, Nil, Nil)

\* SourceValue without the default: the unresolved (nil) value goes on
SourceValue_IgnoresDefault(g, mapping) == g.val

\* the value handed to applyTransformation: the resolved value, or
\* mapping.DefaultValue when the source field was not found
SourceValue(g, mapping) ==
    IF g.err # "" THEN Str(mapping.DefaultValue) ELSE g.val

\* "transformedValue, err := s.applyTransformation(...); if err != nil { return ... }"
TransformFailed(h, mapping, g, input, tr) ==
    Iteration(h, "abort", Err("error_transforming_field", mapping.SourceField, tr.err),
              "transform", tr.err, g.err = "", g.val, input, Nil)

\* SetFailed with the error swallowed: the loop goes on
SetFailed_Ignored(mapping, g, input, tr, st) ==
    Iteration(st.h, "next", NoErr, "set", st.err, g.err = "", g.val, input, tr.val)

\* "if err := setNestedValue(...); err != nil { return ... }"
SetFailed(mapping, g, input, tr, st) ==
    Iteration(st.h, "abort", Err("error_setting_field", mapping.DestField, st.err),
              "set", st.err, g.err = "", g.val, input, tr.val)

\* the iteration once setNestedValue returned st
AfterSet(mapping, g, input, tr, st) ==
    IF st.err \in Panics
    THEN Iteration(st.h, "panic", NoErr, "set", st.err, g.err = "", g.val, input, tr.val)
    ELSE IF st.err # "" THEN SetFailed(mapping, g, input, tr, st)
    ELSE Iteration(st.h, "next", NoErr, "done", "", g.err = "", g.val, input, tr.val)

\* the iteration once applyTransformation returned tr
AfterTransform(h, dst, mapping, g, input, tr) ==
    IF tr.err # "" THEN TransformFailed(tr.h, mapping, g, input, tr)
    ELSE AfterSet(mapping, g, input, tr,
                  setNestedValue(tr.h, dst, mapping.DestField, tr.val))

\* the iteration with the source value settled
WithInput(h, dst, mapping, g, input) ==
    AfterTransform(h, dst, mapping, g, input,
                   applyTransformation(h, sideTables, input, mapping))

\* the iteration once getNestedValue returned g
AfterResolve(h, dst, mapping, g) ==
    IF g.err \in Panics
    THEN Iteration(h, "panic", NoErr, "resolve", g.err, FALSE, Nil, Nil, Nil)
    ELSE IF g.err # "" /\ mapping.IsRequired THEN MissingRequired(h, mapping, g.err)
    ELSE IF g.err # "" /\ mapping.DefaultValue = <<>> THEN MissingSkipped(h, mapping, g.err)
    ELSE WithInput(h, dst, mapping, g, SourceValue(g, mapping))

\* One iteration of the loop "for _, mapping := range fieldMappings" on heap h with
\* sourceObj at src and destObj at dst.  outcome is "next" (the loop goes on),
\* "abort" (TransformData returns &MappingResult{Error: ...}) or "panic".
ApplyMapping(h, src, dst, mapping) ==
    AfterResolve(h, dst, mapping, getNestedValue(h, src, mapping.SourceField))

\* what the loop records of iteration k
TraceEntry(k, it) ==
    [rule |-> k, outcome |-> it.outcome, stage |-> it.stage, cause |-> it.cause,
     found |-> it.found, resolved |-> it.resolved, applied |-> it.applied,
     input |-> it.input, transformed |-> it.transformed, wrote |-> it.wrote]

\* s.db.Where("dataflow_id = ?", dataflowID).Find(&fieldMappings)
ListFieldMappings(dataflowID) ==
    SelectSeq(fieldMappings, LAMBDA fm : fm.DataflowID = dataflowID)

\* FieldMapping.BeforeCreate
BeforeCreateOk(fm) == ~(fm.SourceField = <<>> \/ fm.DestField = <<>>)

\* FieldMappingService.CreateFieldMapping
CreateFieldMapping(fm) ==
    /\ pc = "idle"
    /\ Len(fieldMappings) < MaxRules
    /\ fieldMappings' = IF BeforeCreateOk(fm) THEN Append(fieldMappings, fm)
                        ELSE fieldMappings
    /\ UNCHANGED <<dataflows, logs, everInProgress, webhookVars, dispatchVars, crudVars,
                   accessVars, pc, heap, heap0, sourceObj, destObj, mappings, idx, result,
                   trace, execLog, sent>>

\* the field mappings a create or update request may carry
FieldMappingRequests ==
    { FieldMapping(1, <<"n">>, <<"d">>, FALSE, <<>>, "none", NoConfig),
      \* a transform_config that does not parse
      FieldMapping(1, <<"n">>, <<"e">>, FALSE, <<>>, "convert", NoConfig),
      \* no source_field
      FieldMapping(1, <<>>, <<"f">>, FALSE, <<>>, "none", NoConfig),
      \* no dest_field
      FieldMapping(1, <<"a">>, <<>>, FALSE, <<>>, "none", NoConfig) }

\* FieldMappingService.UpdateFieldMapping: GetFieldMapping, then
\* s.db.Save(fieldMapping) writes every column of the row from the request; Save
\* runs no BeforeCreate hook
UpdateFieldMapping(id, fm) ==
    /\ pc = "idle"
    /\ id \in 1..Len(fieldMappings)
    /\ fieldMappings' = [fieldMappings EXCEPT ![id] = fm]
    /\ UNCHANGED <<dataflows, logs, everInProgress, webhookVars, dispatchVars, crudVars,
                   accessVars, pc, heap, heap0, sourceObj, destObj, mappings, idx, result,
                   trace, execLog, sent>>

\* DataflowService.ExecuteDataflow up to TransformData's loop: GetDataflow, the
\* MigrationLog is created, ListFieldMappings, json.Unmarshal, destObj is made.
\* pc "failed_call" is TransformData having returned (nil, err).
ExecBegin(d, doc) ==
    /\ pc = "idle"
    /\ GetDataflowOk(d)
    /\ LET row == MigrationLog(NextLogID, d, "in_progress", "src-1", doc)
           u   == Unmarshal(doc)
       IN  /\ execLog' = row.ID
           /\ logs' = Append(logs, row)
           /\ everInProgress' = Append(everInProgress, TRUE)
           /\ IF u.ok
              THEN /\ mappings' = ListFieldMappings(d)
                   /\ heap' = Alloc(u.h, MapObj(EmptyFields))
                   /\ heap0' = u.h
                   /\ sourceObj' = 1
                   /\ destObj' = NewAddr(u.h)
                   /\ idx' = 1
                   /\ pc' = "loop"
                   /\ UNCHANGED result
              ELSE /\ result' = MappingResult(Nil, Err("error_parsing_source_data", <<>>, ""))
                   /\ pc' = "failed_call"
                   /\ UNCHANGED <<mappings, heap, heap0, sourceObj, destObj, idx>>
    /\ UNCHANGED <<dataflows, fieldMappings, trace, sent, webhookVars, dispatchVars,
                   crudVars, accessVars>>

\* AbortResult returning the tree built so far along with the error
AbortResult_KeepsData(dst, err) == MappingResult(MapRef(dst), err)

\* "return &MappingResult{Error: ...}, nil": Data is left nil
AbortResult(dst, err) == MappingResult(Nil, err)

\* the loop's state after the iteration it
StepOutcome(it) ==
    /\ heap' = it.h
    /\ trace' = Append(trace, TraceEntry(idx, it))
    /\ CASE it.outcome = "next" ->
              /\ idx' = idx + 1
              /\ UNCHANGED <<pc, result>>
         [] it.outcome = "abort" ->
              /\ result' = AbortResult(destObj, it.Error)
              /\ pc' = "returned"
              /\ UNCHANGED idx
         [] OTHER ->
              /\ pc' = "panicked"
              /\ UNCHANGED <<idx, result>>

\* one iteration of TransformData's loop
TransformStep ==
    /\ pc = "loop"
    /\ idx <= Len(mappings)
    /\ StepOutcome(ApplyMapping(heap, sourceObj, destObj, mappings[idx]))
    /\ UNCHANGED <<dataflows, fieldMappings, logs, everInProgress, webhookVars,
                   dispatchVars, crudVars, accessVars, heap0, sourceObj, destObj, mappings,
                   execLog, sent>>

\* "return &MappingResult{Data: destObj}, nil" after the last mapping
TransformReturn ==
    /\ pc = "loop"
    /\ idx > Len(mappings)
    /\ result' = MappingResult(MapRef(destObj), NoErr)
    /\ pc' = "returned"
    /\ UNCHANGED <<dataflows, fieldMappings, logs, everInProgress, webhookVars,
                   dispatchVars, crudVars, accessVars, heap, heap0, sourceObj, destObj,
                   mappings, idx, trace, execLog, sent>>

\* DataflowService.ExecuteDataflow after TransformData returned: the result is
\* checked, the document is uploaded and the MigrationLog is saved
ExecFinish(upload) ==
    /\ pc \in {"returned", "failed_call"}
    /\ LET row == logs[execLog]
           type == dataflows[row.DataflowID].Type
       IN  IF pc = "failed_call"
           THEN /\ logs' = Save(logs, [row EXCEPT !.Status = "failed",
                                         !.ErrorMessage = Message("Error transforming data",
                                                                  result.Error)])
                /\ sent' = sent
           ELSE IF result.Error # NoErr
           THEN /\ logs' = Save(logs, [row EXCEPT !.Status = "failed",
                                         !.ErrorMessage = Message("Error in transformation",
                                                                  result.Error)])
                /\ sent' = sent
           ELSE IF type \notin {"product", "order"}
           THEN /\ logs' = Save(logs, [row EXCEPT !.Status = "failed",
                                         !.ErrorMessage = Message("Unsupported dataflow type",
                                                                  NoErr)])
                /\ sent' = sent
           ELSE LET marshalled == [row EXCEPT !.TransformedPayload = "json(destObj)"] IN
                CASE upload = "unmarshal_error" ->
                       /\ logs' = Save(logs, [marshalled EXCEPT !.Status = "failed",
                                    !.ErrorMessage =
                                       Message("Error unmarshaling transformed data", NoErr)])
                       /\ sent' = sent
                  [] upload = "create_error" ->
                       /\ logs' = Save(logs, [marshalled EXCEPT !.Status = "failed",
                                    !.ErrorMessage =
                                       Message("Error creating in Shopify", NoErr)])
                       /\ sent' = sent + 1
                  [] OTHER ->
                       /\ logs' = Save(logs, [marshalled EXCEPT !.Status = "success",
                                                                !.DestIdentifier = "shopify-id"])
                       /\ sent' = sent + 1
    /\ pc' = "done"
    /\ UNCHANGED <<dataflows, fieldMappings, everInProgress, webhookVars, dispatchVars,
                   crudVars, accessVars, heap, heap0, sourceObj, destObj, mappings, idx,
                   result, trace, execLog>>

UploadOutcomes == {"ok", "unmarshal_error", "create_error"}

\* ---------------------------------------------------------------------------
\* Migration lifecycle: WebhookHandler.HandleShopwareWebhook and
\* WebhookHandler.UpdateMigrationStatus
\* ---------------------------------------------------------------------------

\* webhook.Data.Event -> models.DataflowType ("" is the 400 "Unsupported event type")
EventType(event) ==
    CASE event = "product.written" -> "product"
      [] event = "order.placed" -> "order"
      [] OTHER -> ""

EventInputs == {"product.written", "order.placed", "customer.written"}

RECURSIVE IdsFrom(_, _)
\* the ids >= i of the set ids, ascending
IdsFrom(ids, i) ==
    IF \A d \in ids : d < i THEN <<>>
    ELSE IF i \in ids THEN <<i>> \o IdsFrom(ids, i + 1) ELSE IdsFrom(ids, i + 1)

\* h.db.Where("type = ? AND status = ?", dataflowType, active).Find(&dataflows)
ActiveDataflows(type) ==
    IdsFrom({d \in DOMAIN dataflows : /\ ~dataflows[d].Deleted
                                       /\ dataflows[d].Type = type
                                       /\ dataflows[d].Status = "active"}, 1)

\* NextDataflow with `return` in place of `continue`: the loop ends
NextDataflow_Returns ==
    /\ hqueue' = <<>>
    /\ hpc' = "idle"

\* the handler's loop "for _, dataflow := range dataflows" moves to the next dataflow
NextDataflow ==
    /\ hqueue' = Tail(hqueue)
    /\ hpc' = IF Len(hqueue) > 1 THEN "create" ELSE "idle"

\* HandleShopwareWebhook up to its loop over the matched dataflows
HandleShopwareWebhook(event) ==
    /\ hpc = "idle"
    /\ LET matched == IF EventType(event) = "" THEN <<>>
                      ELSE ActiveDataflows(EventType(event))
       IN  /\ Len(logs) + Len(matched) <= MaxLogs
           /\ hqueue' = matched
           /\ hpc' = IF Len(matched) > 0 THEN "create" ELSE "idle"
    /\ UNCHANGED <<dataflows, logs, everInProgress, engineVars, dispatchVars, crudVars,
                   accessVars, hlog, hexec, started, cb, clock, handled, cbWrote>>

\* "Create a migration log entry": h.db.Create(&migrationLog), which may fail
HandlerCreate(dbOk) ==
    /\ hpc = "create"
    /\ IF dbOk
       THEN LET row == MigrationLog(NextLogID, Head(hqueue), "pending", "src-1", "payload") IN
            /\ logs' = Append(logs, row)
            /\ hlog' = row
            /\ handled' = Append(handled, "")
            /\ everInProgress' = Append(everInProgress, FALSE)
            /\ cbWrote' = Append(cbWrote, NoLog)
            /\ hpc' = "start"
            /\ UNCHANGED hqueue
       ELSE /\ NextDataflow
            /\ UNCHANGED <<logs, hlog, handled, everInProgress, cbWrote>>
    /\ UNCHANGED <<dataflows, engineVars, dispatchVars, crudVars, accessVars, hexec,
                   started, cb, clock>>

\* StepFunctionsService.StartExecution(dataflow.ID, migrationLog.ID, sourceData):
\* the execution handle of migration m is m; 0 is the empty string
HandlerStartExecution(sfnOk) ==
    /\ hpc = "start"
    /\ IF sfnOk
       THEN /\ hexec' = [arn |-> hlog.ID, err |-> NoMessage]
            /\ started' = started \cup {hlog.ID}
       ELSE /\ hexec' = [arn |-> 0,
                         err |-> Message("error starting Step Functions execution", NoErr)]
            /\ started' = started
    /\ hpc' = "save"
    /\ UNCHANGED <<dataflows, logs, everInProgress, engineVars, dispatchVars, crudVars,
                   accessVars, hqueue, hlog, cb, clock, handled, cbWrote>>

\* HandlerRow with StartExecution's error unchecked
HandlerRow_ErrorUnchecked(local, exec) ==
    [local EXCEPT !.Status = "in_progress", !.ExecutionARN = exec.arn]

\* the struct the handler saves after StartExecution returned
HandlerRow(local, exec) ==
    IF exec.err # NoMessage
    THEN [local EXCEPT !.Status = "failed", !.ErrorMessage = exec.err]
    ELSE [local EXCEPT !.Status = "in_progress", !.ExecutionARN = exec.arn]

\* h.db.Save(&migrationLog) and the loop goes on
HandlerSave ==
    /\ hpc = "save"
    /\ LET row == HandlerRow(hlog, hexec) IN
         /\ logs' = Save(logs, row)
         /\ everInProgress' = [everInProgress EXCEPT ![row.ID] =
                                  @ \/ row.Status = "in_progress"]
         /\ handled' = [handled EXCEPT ![row.ID] =
                           IF hexec.err # NoMessage THEN "failed" ELSE "ok"]
    /\ NextDataflow
    /\ UNCHANGED <<dataflows, engineVars, dispatchVars, crudVars, accessVars, hlog, hexec,
                   started, cb, clock, cbWrote>>

\* the JSON body of an UpdateMigrationStatus request
Request(status, dest, message, transformed) ==
    [Status |-> status, DestIdentifier |-> dest, ErrorMessage |-> message,
     TransformedData |-> transformed]

RequestInputs ==
    { Request("success", "dest-1", NoMessage, "json"),
      Request("failed", "", Message("push failed", NoErr), ""),
      Request("in_progress", "", NoMessage, ""),
      Request("pending", "", NoMessage, ""),
      Request("cancelled", "", NoMessage, "") }

\* the struct UpdateMigrationStatus builds from the row it read and the request
CallbackRow(row, request, now) ==
    [row EXCEPT
       !.Status = request.Status,
       !.DestIdentifier = IF request.DestIdentifier # "" THEN request.DestIdentifier ELSE @,
       !.ErrorMessage = IF request.ErrorMessage # NoMessage THEN request.ErrorMessage ELSE @,
       !.TransformedPayload = IF request.TransformedData # "" THEN request.TransformedData
                              ELSE @,
       !.CompletedAt = IF request.Status \in {"success", "failed"} THEN now ELSE @]

\* UpdateMigrationStatus up to its Save: the orchestrator calls back for an
\* execution it was handed; h.db.First reads the row and the struct is updated
CallbackRead(m, request) ==
    /\ m \in started
    /\ clock < MaxCallbacks
    /\ clock' = clock + 1
    /\ cb' = Append(cb, CallbackRow(logs[m], request, clock + 1))
    /\ UNCHANGED <<dataflows, logs, everInProgress, engineVars, dispatchVars, crudVars,
                   accessVars, hpc, hqueue, hlog, hexec, started, handled, cbWrote>>

\* UpdateMigrationStatus: h.db.Save(&migrationLog) of the request at position i
CallbackSave(i) ==
    /\ i \in 1..Len(cb)
    /\ logs' = Save(logs, cb[i])
    /\ everInProgress' = [everInProgress EXCEPT ![cb[i].ID] =
                             @ \/ cb[i].Status = "in_progress"]
    /\ cbWrote' = [cbWrote EXCEPT ![cb[i].ID] = cb[i]]
    /\ cb' = SubSeq(cb, 1, i - 1) \o SubSeq(cb, i + 1, Len(cb))
    /\ UNCHANGED <<dataflows, engineVars, dispatchVars, crudVars, accessVars, hpc, hqueue,
                   hlog, hexec, started, clock, handled>>

\* ---------------------------------------------------------------------------
\* Direct calls of applyTransformation
\* ---------------------------------------------------------------------------

MaxChain == 2      \* calls of applyTransformation fed one into the next

\* the tables lookupEntity reads: manufacturer {"m1": {"name": "ACME"}},
\* category {"c1": {"name": "Shoes"}}; up is FALSE while the database fails
SideTables(up) ==
    [up |-> up,
     manufacturer |-> Fields({ <<<<"m", "1">>, Fields({ <<<<"n", "a", "m", "e">>, Str(<<"A", "C", "M", "E">>)>> })>> }),
     category |-> Fields({ <<<<"c", "1">>, Fields({ <<<<"n", "a", "m", "e">>, Str(<<"S", "h", "o", "e", "s">>)>> })>> })]

GraphQLWith(resource, direction) == Config(TRUE, <<>>, NoTable, <<>>, resource, direction)
ArrayMapWith(src, dst, table) ==
    [Config(TRUE, <<>>, NoTable, <<>>, <<>>, <<>>) EXCEPT
       !.source_path = src, !.dest_path = dst, !.mapping = table]
MediaWith(base) == [Config(TRUE, <<>>, NoTable, <<>>, <<>>, <<>>) EXCEPT !.base_url = base]
LookupWith(entity, property) ==
    [Config(TRUE, <<>>, NoTable, <<>>, <<>>, <<>>) EXCEPT
       !.entity_type = entity, !.property = property]

Rule(ttype, config) == FieldMapping(1, <<"a">>, <<"d">>, FALSE, <<>>, ttype, config)

\* a value handed to applyTransformation, with the heap its containers live on
Value(h, v) == [h |-> h, v |-> v]

\* the decoded values applyTransformation is called on
ValueInputs ==
    { Value(<<>>, Str(<<"4", "2">>)), Value(<<>>, Str(<<"a", "b", "c">>)), Value(<<>>, Str(<<"t", "r", "u", "e">>)),
      Value(<<>>, Str(<<>>)), Value(<<>>, Str(<<"m", "1">>)), Value(<<>>, Str(<<"c", "1">>)),
      Value(<<>>, Str(<<"z", "z">>)),
      Value(<<>>, Num(7)), Value(<<>>, BoolV(TRUE)), Value(<<>>, Nil),
      \* [{"url": "http://x", "alt": "A"}, {"url": "i.png"}, {"url": "httpd.png", "alt": "B"}]
      Value(<< ArrObj(<<MapRef(2), MapRef(3), MapRef(4)>>),
               MapObj(Fields({ <<S_url, Str(<<"h", "t", "t", "p", ":", "/", "/", "x">>)>>, <<S_alt, Str(<<"A">>)>> })),
               MapObj(Fields({ <<S_url, Str(<<"i", ".", "p", "n", "g">>)>> })),
               MapObj(Fields({ <<S_url, Str(<<"h", "t", "t", "p", "d", ".", "p", "n", "g">>)>>, <<S_alt, Str(<<"B">>)>> })) >>, ArrRef(1)),
      \* [{"id": "c1", "o": {"k": "v"}}, {"id": "zz"}]
      Value(<< ArrObj(<<MapRef(2), MapRef(4)>>),
               MapObj(Fields({ <<<<"i", "d">>, Str(<<"c", "1">>)>>, <<<<"o">>, MapRef(3)>> })),
               MapObj(Fields({ <<<<"k">>, Str(<<"v">>)>> })),
               MapObj(Fields({ <<<<"i", "d">>, Str(<<"z", "z">>)>> })) >>, ArrRef(1)),
      \* [{"id": "c1"}, "x", {"id": "zz"}]
      Value(<< ArrObj(<<MapRef(2), Str(<<"x">>), MapRef(3)>>),
               MapObj(Fields({ <<<<"i", "d">>, Str(<<"c", "1">>)>> })),
               MapObj(Fields({ <<<<"i", "d">>, Str(<<"z", "z">>)>> })) >>, ArrRef(1)),
      \* {"id": "c1"}
      Value(<< MapObj(Fields({ <<<<"i", "d">>, Str(<<"c", "1">>)>> })) >>, MapRef(1)),
      \* []
      Value(<< ArrObj(<<>>) >>, ArrRef(1)) }

\* the rules applyTransformation is called with
TransformInputs ==
    { Rule("none", NoConfig),
      Rule("convert", ConvertTo(S_string)), Rule("convert", ConvertTo(S_int)),
      Rule("convert", ConvertTo(S_float)), Rule("convert", ConvertTo(S_bool)),
      Rule("convert", NoConfig),
      Rule("map", MapWith(Fields({ <<<<"4", "2">>, Str(<<"L">>)>>, <<<<"t", "r", "u", "e">>, Str(<<"y", "e", "s">>)>> }))),
      Rule("map", MapWith(Fields({ <<<<"4", "2">>, Str(<<"L">>)>>, <<S_default, Str(<<"o", "t", "h", "e", "r">>)>> }))),
      Rule("graphql_id", GraphQLWith(<<"P", "r", "o", "d", "u", "c", "t">>, S_to_global)),
      Rule("graphql_id", GraphQLWith(<<>>, S_to_global)),
      Rule("graphql_id", GraphQLWith(<<"P", "r", "o", "d", "u", "c", "t">>, S_from_global)),
      Rule("array_map", ArrayMapWith(<<"i", "d">>, <<"i", "d">>, NoTable)),
      Rule("array_map", ArrayMapWith(<<"i", "d">>, <<"r", "e", "f", ".", "g", "i", "d">>, Fields({ <<<<"c", "1">>, Str(<<"C">>)>> }))),
      Rule("array_map", ArrayMapWith(<<"o", ".", "k">>, <<"k">>, NoTable)),
      Rule("array_map", ArrayMapWith(<<"i", "d">>, <<>>, NoTable)),
      Rule("media_map", MediaWith(<<>>)), Rule("media_map", MediaWith(<<"c", "d", "n">>)),
      Rule("media_map", MediaWith(<<"c", "d", "n", "/">>)),
      Rule("entity_lookup", LookupWith(S_manufacturer, <<"n", "a", "m", "e">>)),
      Rule("entity_lookup", LookupWith(S_category, <<"n", "a", "m", "e">>)),
      Rule("entity_lookup", LookupWith(S_category, <<"c", "o", "d", "e">>)),
      Rule("entity_lookup", LookupWith(<<"t", "a", "g">>, <<"n", "a", "m", "e">>)),
      Rule("conditional", Config(TRUE, <<>>, NoTable, <<>>, <<>>, <<>>)) }

\* one call: the heap and the value it is given, and the rule
Call(h, value, mapping) == [h |-> h, value |-> value, mapping |-> mapping]

\* applyTransformation is called on a decoded value
DispatchCall(in, mapping, up) ==
    /\ tpc = "idle"
    /\ tcall' = <<Call(in.h, in.v, mapping)>>
    /\ sideTables' = SideTables(up)
    /\ tpc' = "called"
    /\ UNCHANGED <<dataflows, logs, everInProgress, engineVars, webhookVars, crudVars,
                   accessVars, tresult>>

\* the call returns
DispatchReturn ==
    /\ tpc = "called"
    /\ tresult' = Append(tresult,
                         applyTransformation(tcall[Len(tcall)].h, sideTables,
                                             tcall[Len(tcall)].value,
                                             tcall[Len(tcall)].mapping))
    /\ tpc' = "returned"
    /\ UNCHANGED <<dataflows, logs, everInProgress, engineVars, webhookVars, crudVars,
                   accessVars, sideTables, tcall>>

\* the value a call returned is handed to another rule
DispatchChain(mapping) ==
    /\ tpc = "returned"
    /\ Len(tcall) < MaxChain
    /\ tresult[Len(tresult)].err = ""
    /\ tcall' = Append(tcall, Call(tresult[Len(tresult)].h, tresult[Len(tresult)].val,
                                   mapping))
    /\ tpc' = "called"
    /\ UNCHANGED <<dataflows, logs, everInProgress, engineVars, webhookVars, crudVars,
                   accessVars, sideTables, tresult>>

\* ---------------------------------------------------------------------------
\* Dataflow requests: DataflowService.CreateDataflow, UpdateDataflow, DeleteDataflow
\* ---------------------------------------------------------------------------

MaxDataflows == 4  \* rows of table dataflows, deleted ones included
MaxRequests == 2   \* create, update and delete requests of one run

\* table connectors: id -> Type
Connectors == <<[Type |-> "shopware"], [Type |-> "shopify"]>>

\* models.Dataflow; Deleted is DeletedAt being set
Dataflow(name, type, status, source, dest) ==
    [Name |-> name, Type |-> type, Status |-> status, SourceConnectorID |-> source,
     DestConnectorID |-> dest, Deleted |-> FALSE]

\* the dataflows a create or update request may carry
DataflowRequests ==
    { Dataflow("flow", "product", "active", 1, 2),
      \* the connectors swapped
      Dataflow("flow", "order", "active", 2, 1),
      \* one connector for both ends
      Dataflow("flow", "product", "inactive", 1, 1),
      \* a connector that does not exist
      Dataflow("flow", "product", "active", 1, 3),
      \* no name
      Dataflow("", "product", "active", 1, 2) }

\* the requests an update is drawn from: those whose connectors exist, a row
\* referring to no connector being what the foreign keys of the table may refuse
UpdateRequests ==
    { d \in DataflowRequests : /\ d.SourceConnectorID \in DOMAIN Connectors
                                /\ d.DestConnectorID \in DOMAIN Connectors }

\* Dataflow.BeforeCreate: the error it returns, "" for nil
DataflowBeforeCreate(d) ==
    IF d.Name = "" THEN "ErrInvalidDataflow"
    ELSE IF d.SourceConnectorID = d.DestConnectorID THEN "ErrSameConnector"
    ELSE IF d.SourceConnectorID \notin DOMAIN Connectors THEN "record_not_found"
    ELSE IF d.DestConnectorID \notin DOMAIN Connectors THEN "record_not_found"
    ELSE IF Connectors[d.SourceConnectorID].Type # "shopware" THEN "ErrInvalidSourceConnector"
    ELSE IF Connectors[d.DestConnectorID].Type # "shopify" THEN "ErrInvalidDestConnector"
    ELSE ""

\* where a DeleteDataflow call is: "idle", or about to run its "count" query,
\* its "mappings" delete or its "dataflow" delete
Deleting(at, id) == [at |-> at, id |-> id]
NoDelete == Deleting("idle", 0)

\* the outcome of a request: n counts the requests made
Outcome(op, id, err) == [op |-> op, id |-> id, err |-> err, n |-> derr.n + 1]

\* the requests of a run come one after another, and none while the webhook
\* handler is at work
RequestStarts ==
    /\ pc = "idle"
    /\ hpc = "idle"
    /\ del = NoDelete
    /\ derr.n < MaxRequests

\* DataflowService.CreateDataflow: s.db.Create(dataflow), BeforeCreate being its hook
CreateDataflow(d) ==
    /\ RequestStarts
    /\ Len(dataflows) < MaxDataflows
    /\ derr' = Outcome("create", Len(dataflows) + 1, DataflowBeforeCreate(d))
    /\ dataflows' = IF DataflowBeforeCreate(d) = "" THEN Append(dataflows, d) ELSE dataflows
    /\ UNCHANGED <<logs, everInProgress, engineVars, webhookVars, dispatchVars, accessVars,
                   del>>

\* DataflowService.UpdateDataflow: GetDataflow, then s.db.Save(dataflow) writes
\* every column of the row from the request; Save runs no BeforeCreate hook
UpdateDataflow(id, d) ==
    /\ RequestStarts
    /\ IF GetDataflowOk(id)
       THEN /\ dataflows' = [dataflows EXCEPT ![id] = d]
            /\ derr' = Outcome("update", id, "")
       ELSE /\ derr' = Outcome("update", id, "record_not_found")
            /\ UNCHANGED dataflows
    /\ UNCHANGED <<logs, everInProgress, engineVars, webhookVars, dispatchVars, accessVars,
                   del>>

\* DeleteRefused with the count of migration logs not looked at
DeleteRefused_Never(id) == FALSE

\* DeleteDataflow: "if count > 0" of the migration logs with dataflow_id = id
DeleteRefused(id) == \E m \in 1..Len(logs) : logs[m].DataflowID = id

\* DataflowService.DeleteDataflow
DeleteDataflow(id) ==
    /\ RequestStarts
    /\ IF ~GetDataflowOk(id)
       THEN /\ derr' = Outcome("delete", id, "record_not_found")
            /\ UNCHANGED <<dataflows, fieldMappings>>
       ELSE IF DeleteRefused(id)
            THEN /\ derr' = Outcome("delete", id, "dataflow_has_migration_logs")
                 /\ UNCHANGED <<dataflows, fieldMappings>>
            ELSE /\ fieldMappings' = SelectSeq(fieldMappings, LAMBDA fm : fm.DataflowID # id)
                 /\ dataflows' = [dataflows EXCEPT ![id].Deleted = TRUE]
                 /\ derr' = Outcome("delete", id, "")
    /\ UNCHANGED <<logs, everInProgress, webhookVars, dispatchVars, accessVars, del, pc,
                   heap, heap0, sourceObj, destObj, mappings, idx, result, trace, execLog,
                   sent>>

\* DeleteDataflow statement by statement, for the runs in which other requests
\* are served between its statements.  "existingDataflow, err := s.GetDataflow(id)"
DeleteGet(id) ==
    /\ del = NoDelete
    /\ derr.n < MaxRequests
    /\ IF GetDataflowOk(id)
       THEN /\ del' = Deleting("count", id)
            /\ UNCHANGED derr
       ELSE /\ derr' = Outcome("delete", id, "record_not_found")
            /\ UNCHANGED del
    /\ UNCHANGED <<dataflows, logs, everInProgress, engineVars, webhookVars, dispatchVars,
                   accessVars>>

\* "s.db.Model(&models.MigrationLog{}).Where("dataflow_id = ?", id).Count(&count)"
\* and "if count > 0 { return errors.New(...) }"
DeleteCount ==
    /\ del.at = "count"
    /\ IF DeleteRefused(del.id)
       THEN /\ derr' = Outcome("delete", del.id, "dataflow_has_migration_logs")
            /\ del' = NoDelete
       ELSE /\ del' = Deleting("mappings", del.id)
            /\ UNCHANGED derr
    /\ UNCHANGED <<dataflows, logs, everInProgress, engineVars, webhookVars, dispatchVars,
                   accessVars>>

\* "s.db.Where("dataflow_id = ?", id).Delete(&models.FieldMapping{})"
DeleteMappings ==
    /\ del.at = "mappings"
    /\ fieldMappings' = SelectSeq(fieldMappings, LAMBDA fm : fm.DataflowID # del.id)
    /\ del' = Deleting("dataflow", del.id)
    /\ UNCHANGED <<dataflows, logs, everInProgress, webhookVars, dispatchVars, accessVars,
                   derr, pc, heap, heap0, sourceObj, destObj, mappings, idx, result, trace,
                   execLog, sent>>

\* "return s.db.Delete(existingDataflow).Error"
DeleteRow ==
    /\ del.at = "dataflow"
    /\ dataflows' = [dataflows EXCEPT ![del.id].Deleted = TRUE]
    /\ derr' = Outcome("delete", del.id, "")
    /\ del' = NoDelete
    /\ UNCHANGED <<logs, everInProgress, engineVars, webhookVars, dispatchVars, accessVars>>

\* the field mappings stored while dataflows are created, changed and deleted
DataflowMappingInputs ==
    { FieldMapping(1, <<"a">>, <<"d">>, FALSE, <<>>, "none", NoConfig) }

\* ---------------------------------------------------------------------------
\* Direct calls of getNestedValue and setNestedValue
\* ---------------------------------------------------------------------------

MaxOps == 2        \* calls made on one tree

\* the trees the accessor is called on, the root map at address 1: the decoded
\* documents D1 and D2, make(map[string]interface{}), and the decoded Shopware
\* product {"stock": 7}
TreeInputs == {"D1", "D2", "new", "product"}
LoadTree(doc) ==
    CASE doc = "new" -> <<MapObj(EmptyFields)>>
      [] doc = "product" -> <<MapObj(Fields({ <<<<"s", "t", "o", "c", "k">>, Num(7)>> }))>>
      [] OTHER -> Unmarshal(doc).h

\* the paths the accessor is called with; the last three are not well-formed
PathInputs ==
    { <<"d">>,    \* d
      <<"a", ".", "b">>,    \* a.b
      <<"n", ".", "x">>,    \* n.x
      <<"z", ".", "y">>,    \* z.y
      <<"v", "[", "0", "]">>,    \* v[0]
      <<"v", "[", "1", "]">>,    \* v[1]
      <<"v", "[", "0", "]", ".", "s">>,    \* v[0].s
      <<"v", "[", "1", "]", ".", "s">>,    \* v[1].s
      <<"v", "[", "0", "]", ".", "s", ".", "t">>,    \* v[0].s.t
      <<"w", "[", "1", "]">>,    \* w[1]
      <<"n", "[", "0", "]">>,    \* n[0]
      <<"w", "[", "2", "]", ".", "q">>,    \* w[2].q
      <<"v", "[", "x", "]">>,    \* v[x]
      <<"v", "]", "0", "[">>,    \* v]0[
      <<"v", "[", "-", "1", "]">> }    \* v[-1]

\* what TransformData's loop did with the value looked up for a rule
Step(outcome, err, wrote, transformed) ==
    [outcome |-> outcome, Error |-> err, wrote |-> wrote, transformed |-> transformed]
NoStep == Step("", NoErr, FALSE, Nil)
NoRule == FieldMapping(0, <<>>, <<>>, FALSE, <<>>, "", NoConfig)

Access(n, op, path, value, before, err, val) ==
    [n |-> n, op |-> op, path |-> path, value |-> value, before |-> before,
     err |-> err, val |-> val, rule |-> NoRule, step |-> NoStep]
NoAccess == Access(0, "", <<>>, Nil, <<>>, "", Nil)

\* the rules TransformData looks a source value up for: optional, required,
\* and optional with a default value
\* GetDefaultProductMappings: stock -> variants[0].inventoryQuantity, {"type": "int"}
DefaultStockMapping ==
    FieldMapping(1, <<"s", "t", "o", "c", "k">>,
                 <<"v", "a", "r", "i", "a", "n", "t", "s", "[", "0", "]", ".", "i", "n", "v", "e", "n", "t", "o", "r", "y", "Q", "u", "a", "n", "t", "i", "t", "y">>,
                 FALSE, <<>>, "convert", ConvertTo(S_int))

LookupInputs ==
    { FieldMapping(1, path, <<"d">>, how[1], how[2], "none", NoConfig) :
        path \in PathInputs,
        how \in { <<FALSE, <<>> >>, <<TRUE, <<>> >>, <<FALSE, <<"7">> >> } }
      \cup {DefaultStockMapping}

\* a tree is decoded or made
AccessorLoad(doc) ==
    /\ atree = <<>>
    /\ atree' = LoadTree(doc)
    /\ UNCHANGED <<dataflows, logs, everInProgress, engineVars, webhookVars, dispatchVars,
                   crudVars, acall>>

\* setNestedValue(obj, path, value); what it changed before an error stays changed
AccessorSet(path, value) ==
    /\ atree # <<>>
    /\ acall.n < MaxOps
    /\ atree' = setNestedValue(atree, 1, path, value).h
    /\ acall' = Access(acall.n + 1, "set", path, value, atree,
                       setNestedValue(atree, 1, path, value).err, Nil)
    /\ UNCHANGED <<dataflows, logs, everInProgress, engineVars, webhookVars, dispatchVars,
                   crudVars>>

\* getNestedValue(obj, path)
AccessorGet(path) ==
    /\ atree # <<>>
    /\ acall.n < MaxOps
    /\ acall' = Access(acall.n + 1, "get", path, Nil, atree,
                       getNestedValue(atree, 1, path).err,
                       getNestedValue(atree, 1, path).val)
    /\ UNCHANGED <<dataflows, logs, everInProgress, engineVars, webhookVars, dispatchVars,
                   crudVars, atree>>

Looked(n, before, mapping, g, it) ==
    [Access(n, "lookup", mapping.SourceField, Nil, before, g.err, g.val) EXCEPT
       !.rule = mapping, !.step = Step(it.outcome, it.Error, it.wrote, it.transformed)]

\* one iteration of TransformData's loop with the tree as sourceObj and a
\* destObj of its own, which no later call sees
AccessorLookup(mapping) ==
    /\ atree # <<>>
    /\ acall.n < MaxOps
    /\ acall' = Looked(acall.n + 1, atree, mapping,
                       getNestedValue(atree, 1, mapping.SourceField),
                       ApplyMapping(Alloc(atree, MapObj(EmptyFields)), 1, NewAddr(atree),
                                    mapping))
    /\ UNCHANGED <<dataflows, logs, everInProgress, engineVars, webhookVars, dispatchVars,
                   crudVars, atree>>

\* ---------------------------------------------------------------------------
\* Specifications
\* ---------------------------------------------------------------------------

Init ==
    /\ dataflows = [d \in DataflowInputs |->
                      CASE d = 1 -> Dataflow("flow", "product", "active", 1, 2)
                        [] d = 2 -> Dataflow("flow", "product", "active", 1, 2)
                        [] OTHER -> Dataflow("flow", "order", "inactive", 1, 2)]
    /\ fieldMappings = <<>>
    /\ logs = <<>>
    /\ sent = 0
    /\ pc = "idle"
    /\ heap = <<>>
    /\ heap0 = <<>>
    /\ sourceObj = 0
    /\ destObj = 0
    /\ mappings = <<>>
    /\ idx = 0
    /\ result = NoResult
    /\ trace = <<>>
    /\ execLog = 0
    /\ hpc = "idle"
    /\ hqueue = <<>>
    /\ hlog = NoLog
    /\ hexec = [arn |-> 0, err |-> NoMessage]
    /\ started = {}
    /\ cb = <<>>
    /\ clock = 0
    /\ handled = <<>>
    /\ everInProgress = <<>>
    /\ cbWrote = <<>>
    /\ sideTables = SideTables(TRUE)
    /\ tpc = "idle"
    /\ tcall = <<>>
    /\ tresult = <<>>
    /\ derr = [op |-> "", id |-> 0, err |-> "", n |-> 0]
    /\ del = NoDelete
    /\ atree = <<>>
    /\ acall = NoAccess

\* the transformation engine under a manual ExecuteDataflow request
Next ==
    \/ \E fm \in MappingInputs : CreateFieldMapping(fm)
    \/ \E d \in DataflowInputs, doc \in SourceDataInputs : ExecBegin(d, doc)
    \/ TransformStep
    \/ TransformReturn
    \/ \E upload \in UploadOutcomes : ExecFinish(upload)

Spec == Init /\ [][Next]_vars

\* the webhook handler and the orchestrator's status callbacks
WebhookNext ==
    \/ \E event \in EventInputs : HandleShopwareWebhook(event)
    \/ \E dbOk \in BOOLEAN : HandlerCreate(dbOk)
    \/ \E sfnOk \in BOOLEAN : HandlerStartExecution(sfnOk)
    \/ HandlerSave
    \/ \E m \in 1..MaxLogs, request \in RequestInputs : CallbackRead(m, request)
    \/ \E i \in 1..MaxCallbacks : CallbackSave(i)

WebhookSpec == Init /\ [][WebhookNext]_vars

\* applyTransformation called on its own
DispatchNext ==
    \/ \E in \in ValueInputs, mapping \in TransformInputs, up \in BOOLEAN :
          DispatchCall(in, mapping, up)
    \/ DispatchReturn
    \/ \E mapping \in TransformInputs : DispatchChain(mapping)

DispatchSpec == Init /\ [][DispatchNext]_vars

\* dataflows created, changed and deleted between the webhooks that store logs
DataflowNext ==
    \/ \E d \in DataflowRequests : CreateDataflow(d)
    \/ \E id \in 1..MaxDataflows, d \in UpdateRequests : UpdateDataflow(id, d)
    \/ \E id \in 1..MaxDataflows : DeleteDataflow(id)
    \/ \E fm \in DataflowMappingInputs : CreateFieldMapping(fm)
    \/ \E event \in EventInputs : HandleShopwareWebhook(event)
    \/ \E dbOk \in BOOLEAN : HandlerCreate(dbOk)
    \/ \E sfnOk \in BOOLEAN : HandlerStartExecution(sfnOk)
    \/ HandlerSave

DataflowSpec == Init /\ [][DataflowNext]_vars

\* DeleteDataflow served at the same time as the webhook handler
RaceNext ==
    \/ \E id \in 1..MaxDataflows : DeleteGet(id)
    \/ DeleteCount
    \/ DeleteMappings
    \/ DeleteRow
    \/ \E fm \in DataflowMappingInputs : CreateFieldMapping(fm)
    \/ \E event \in EventInputs : HandleShopwareWebhook(event)
    \/ \E dbOk \in BOOLEAN : HandlerCreate(dbOk)
    \/ \E sfnOk \in BOOLEAN : HandlerStartExecution(sfnOk)
    \/ HandlerSave

RaceSpec == Init /\ [][RaceNext]_vars

\* field mappings created and changed between runs of ExecuteDataflow
MappingNext ==
    \/ \E fm \in FieldMappingRequests : CreateFieldMapping(fm)
    \/ \E id \in 1..MaxRules, fm \in FieldMappingRequests : UpdateFieldMapping(id, fm)
    \/ \E d \in DataflowInputs, doc \in SourceDataInputs : ExecBegin(d, doc)
    \/ TransformStep
    \/ TransformReturn
    \/ \E upload \in UploadOutcomes : ExecFinish(upload)

MappingSpec == Init /\ [][MappingNext]_vars

\* getNestedValue and setNestedValue called on a tree of their own
AccessorNext ==
    \/ \E doc \in TreeInputs : AccessorLoad(doc)
    \/ \E path \in PathInputs : AccessorSet(path, Str(<<"x">>))
    \/ \E path \in PathInputs : AccessorGet(path)
    \/ \E mapping \in LookupInputs : AccessorLookup(mapping)

AccessorSpec == Init /\ [][AccessorNext]_vars

\* ---------------------------------------------------------------------------
\* Properties
\* ---------------------------------------------------------------------------

Last(q) == q[Len(q)]
Terminal == {"success", "failed"}
Returned == {"returned", "done"}

\* C1: a required rule whose source field getNestedValue cannot resolve stops the
\* run at that rule: the result's error names that source field, the rule is
\* neither transformed nor written, and no later rule is visited.
C1_RequiredMissingAborts ==
    \A k \in 1..Len(trace) :
        (mappings[k].IsRequired /\ ~trace[k].found /\ trace[k].outcome # "panic") =>
            /\ Len(trace) = k
            /\ idx = k
            /\ pc \in Returned
            /\ result.Error.kind = "required_field_not_found"
            /\ result.Error.field = mappings[k].SourceField
            /\ ~trace[k].applied
            /\ ~trace[k].wrote

\* a finished run that wrote rule 1, stopped at the required rule 2 and left rule 3
C1_Witness ==
    /\ pc = "done"
    /\ Len(mappings) = 3
    /\ Len(trace) = 2
    /\ trace[1].wrote
    /\ mappings[2].IsRequired
    /\ ~trace[2].found
    /\ result.Error = Err("required_field_not_found", <<"z">>, "")

\* C5: an error of applyTransformation or of setNestedValue at rule k stops the
\* run at rule k with that error attached to the result; rule k writes nothing
\* and no later rule is visited.
C5_TransformOrSetErrorAborts ==
    \A k \in 1..Len(trace) :
        (trace[k].stage \in {"transform", "set"} /\ trace[k].cause # ""
            /\ trace[k].cause \notin Panics) =>
            /\ Len(trace) = k
            /\ idx = k
            /\ pc \in Returned
            /\ ~trace[k].wrote
            /\ result.Error =
                 IF trace[k].stage = "transform"
                 THEN Err("error_transforming_field", mappings[k].SourceField, trace[k].cause)
                 ELSE Err("error_setting_field", mappings[k].DestField, trace[k].cause)
            /\ trace[k].stage = "transform" =>
                 applyTransformation(heap, sideTables, trace[k].input, mappings[k]).err
                   = trace[k].cause

\* a finished run stopped by setNestedValue at rule 2 of 3
C5_Witness ==
    /\ pc = "done"
    /\ Len(mappings) = 3
    /\ Len(trace) = 2
    /\ trace[1].wrote
    /\ trace[2].stage = "set"
    /\ result.Error.kind = "error_setting_field"
    /\ result.Error.cause = "not_an_object"

IsTransformStep == pc = "loop" /\ idx <= Len(mappings) /\ trace' # trace

\* what C7 asks of an iteration on the optional rule m whose source field is
\* absent, tr being applyTransformation of m's default value
C7_Effect(m, tr) ==
    IF m.DefaultValue = <<>>
    THEN /\ ~Last(trace').applied
         /\ heap' = heap
         /\ idx' = idx + 1
         /\ pc' = "loop"
         /\ result' = result
    ELSE /\ Last(trace').applied
         /\ Last(trace').input = Str(m.DefaultValue)
         /\ IF tr.err # ""
            THEN /\ heap' = heap
                 /\ result'.Error = Err("error_transforming_field", m.SourceField, tr.err)
            ELSE /\ Last(trace').transformed = tr.val
                 /\ heap' = setNestedValue(heap, destObj, m.DestField, tr.val).h

\* C7: when a rule's source field is not found and the rule is not required, a
\* non-empty default value is the input passed to applyTransformation and the
\* result is written at dest_field; with an empty default the rule writes
\* nothing and the run goes on to the next rule without error.
C7_DefaultOrSkip ==
    [][(IsTransformStep
          /\ ~mappings[idx].IsRequired
          /\ getNestedValue(heap, sourceObj, mappings[idx].SourceField).err # "")
        => C7_Effect(mappings[idx],
                     applyTransformation(heap, sideTables, Str(mappings[idx].DefaultValue),
                                         mappings[idx]))]_vars

\* a run that skipped an absent optional rule without default and then wrote the
\* converted default "7" of another one at g
C7_Witness ==
    /\ pc = "returned"
    /\ result.Error = NoErr
    /\ Len(trace) = 2
    /\ ~trace[1].found /\ mappings[1].DefaultValue = <<>> /\ ~trace[1].wrote
    /\ ~trace[2].found /\ mappings[2].DefaultValue = <<"7">> /\ trace[2].wrote
    /\ getNestedValue(heap, destObj, <<"g">>) = GetOk(IntV(7))

\* the key of a path's first segment
RootKey(path) ==
    IF IsIndexed(Split(path, ".")[1]) THEN PartKey(Split(path, ".")[1])
    ELSE Split(path, ".")[1]

\* C4 as claimed: a setNestedValue at a path not previously present in the tree
\* (here: not even its first segment's key is, so nothing on the path can have
\* another shape) succeeds, and getNestedValue then returns the value at that path.
C4_SetThenGet ==
    [][(IsTransformStep
          /\ Last(trace').stage \in {"set", "done"}
          /\ ~HasField(heap, destObj, RootKey(mappings[idx].DestField))
          /\ getNestedValue(heap, destObj, mappings[idx].DestField).err # "")
        => /\ Last(trace').stage = "done"
           /\ getNestedValue(heap', destObj, mappings[idx].DestField)
                = GetOk(Last(trace').transformed)]_vars

\* C10 as claimed: TransformData never modifies the parsed source document, and
\* every rule resolves the value the original source has at its source field.
C10_SourceNeverModified ==
    pc \in {"loop", "returned", "done", "panicked"} =>
        /\ \A a \in 1..Len(heap0) : heap[a] = heap0[a]
        /\ \A k \in 1..Len(trace) :
             trace[k].found =>
                 GetOk(trace[k].resolved)
                   = getNestedValue(heap0, sourceObj, mappings[k].SourceField)

\* C9 as claimed: every MigrationLog is first stored with status pending, and a
\* log leaves in_progress for success or failed only by a status callback's Save.
C9_PendingFirstCallbackFinishes ==
    [][/\ Len(logs') > Len(logs) => Last(logs').Status = "pending"
       /\ \A m \in 1..Len(logs) :
            (logs[m].Status = "in_progress" /\ logs'[m].Status \in Terminal)
               => Len(cb') < Len(cb)]_vars

\* C2 as claimed: no status is revisited: once a log is success or failed its
\* status never changes again.
C2_TerminalStatusIsFinal ==
    [][\A m \in 1..Len(logs) :
          logs[m].Status \in Terminal => logs'[m].Status = logs[m].Status]_vars

\* no UpdateMigrationStatus request for log m is between its read and its Save
NoCallbackInFlight(m) == \A i \in 1..Len(cb) : cb[i].ID # m

\* C3 as claimed: once the handler's own Save and the callback's Save for a log
\* are both done, the terminal status, destination identifier, transformed
\* payload and completion time the callback wrote are on the row.
C3_CallbackUpdateKept ==
    \A m \in 1..Len(logs) :
        (handled[m] # "" /\ cbWrote[m].Status \in Terminal /\ NoCallbackInFlight(m)) =>
            /\ logs[m].Status = cbWrote[m].Status
            /\ logs[m].DestIdentifier = cbWrote[m].DestIdentifier
            /\ logs[m].TransformedPayload = cbWrote[m].TransformedPayload
            /\ logs[m].CompletedAt = cbWrote[m].CompletedAt

\* the handler's step "h.db.Create(&migrationLog)" succeeded
IsHandlerCreate == hpc = "create" /\ hpc' = "start"

\* the handler's step "h.db.Save(&migrationLog)"
IsHandlerSave == hpc = "save" /\ hpc' # "save"

IsGraphQL(call, direction) ==
    /\ call.mapping.TransformType = "graphql_id"
    /\ call.mapping.TransformConfig.valid
    /\ call.mapping.TransformConfig.direction = direction

\* call k converts an ID (non-empty, no "/") to a global ID and call k+1, given
\* its result, converts back
RoundTrip(k) ==
    /\ k + 1 <= Len(tresult)
    /\ IsGraphQL(tcall[k], S_to_global)
    /\ IsGraphQL(tcall[k + 1], S_from_global)
    /\ tcall[k].value.t = "str"
    /\ tcall[k].value.s # <<>>
    /\ ~Contains(tcall[k].value.s, "/")

\* C11: graphql_id from_global applied to what graphql_id to_global returned for
\* a non-empty ID without "/" returns that ID, whatever the resource type.
C11_GraphQLRoundTrip ==
    \A k \in 1..Len(tresult) :
        RoundTrip(k) =>
            /\ tresult[k].err = "" /\ tresult[k + 1].err = ""
            /\ tcall[k + 1].value = tresult[k].val
            /\ tresult[k + 1].val = tcall[k].value

\* the ID 42 went to gid://shopify/Product/42 and came back
C11_Witness ==
    /\ RoundTrip(1)
    /\ tcall[1].value = Str(<<"4", "2">>)
    /\ tresult[1].val = Str(S_gid_prefix \o <<"P", "r", "o", "d", "u", "c", "t", "/", "4", "2">>)
    /\ tresult[2].val = Str(<<"4", "2">>)

\* call k is a convert with a decodable config of one of the four target types
IsConvert(k) ==
    /\ k <= Len(tresult)
    /\ tcall[k].mapping.TransformType = "convert"
    /\ tcall[k].mapping.TransformConfig.valid
    /\ tcall[k].mapping.TransformConfig.type \in {S_string, S_int, S_float, S_bool}

\* strconv's verdict on s for a target type other than string
Parses(s, type) == IF type = S_bool THEN ParseBool(s).ok ELSE Atoi(s).ok

\* what a convert of a string returns: the parsed value for a parsable string,
\* an error and no value for any other
ConvertsString(k) ==
    LET type == tcall[k].mapping.TransformConfig.type
        s == tcall[k].value.s
    IN  /\ (type # S_string /\ ~Parses(s, type)) =>
               tresult[k].err # "" /\ tresult[k].val = Nil
        /\ (type # S_string /\ Parses(s, type)) =>
               /\ tresult[k].err = ""
               /\ tresult[k].val.t = (CASE type = S_int -> "int" [] type = S_float -> "num"
                                        [] OTHER -> "bool")
        /\ (type = S_int /\ s = <<"4", "2">>) => tresult[k].val = IntV(42)
        /\ (type = S_int /\ s = <<"a", "b", "c">>) =>
               tresult[k].err = "error_converting_to_int"
        /\ type = S_string => tresult[k].err = "" /\ tresult[k].val = tcall[k].value

IsMap(k) ==
    /\ k <= Len(tresult)
    /\ tcall[k].mapping.TransformType = "map"
    /\ tcall[k].mapping.TransformConfig.valid

\* C13: map returns the table's entry for the %v text of the input, otherwise
\* the _default entry when the table has one, otherwise an error and no value:
\* an unmatched input is never passed through.
C13_MapLookup ==
    \A k \in 1..Len(tresult) :
        IsMap(k) =>
            LET table == tcall[k].mapping.TransformConfig.table
                key == Sprintv(tcall[k].value)
            IN  IF key \in DOMAIN table
                THEN tresult[k].err = "" /\ tresult[k].val = table[key]
                ELSE IF S_default \in DOMAIN table
                     THEN tresult[k].err = "" /\ tresult[k].val = table[S_default]
                     ELSE tresult[k].err = "no_mapping_found" /\ tresult[k].val = Nil

\* "zz" matched no key and took the _default entry "other"; "other" given to the
\* table without _default was an error
C13_Witness ==
    /\ IsMap(1) /\ IsMap(2)
    /\ tcall[1].value = Str(<<"z", "z">>)
    /\ S_default \in DOMAIN tcall[1].mapping.TransformConfig.table
    /\ tresult[1].val = Str(<<"o", "t", "h", "e", "r">>)
    /\ S_default \notin DOMAIN tcall[2].mapping.TransformConfig.table
    /\ tresult[2].err = "no_mapping_found"

\* call k is an array_map with a decodable config, given an array or an object
IsArrayMap(k) ==
    /\ k <= Len(tresult)
    /\ tcall[k].mapping.TransformType = "array_map"
    /\ tcall[k].mapping.TransformConfig.valid
    /\ tcall[k].value.t \in {"arr", "map"}

\* the elements array_map is given: those of the array, or the single object
ElementsIn(k) ==
    IF tcall[k].value.t = "arr" THEN tcall[k].h[tcall[k].value.n].e
    ELSE <<tcall[k].value>>

\* output object out of call k is fresh and holds what element el projects to
ProjectionOf(k, el, out) ==
    LET config == tcall[k].mapping.TransformConfig
        h == tresult[k].h
    IN  /\ el.t = "map" /\ out.t = "map"
        /\ out.n > Len(tcall[k].h)
        /\ IF config.dest_path = <<>> THEN h[out.n].m = h[el.n].m
           ELSE getNestedValue(h, out.n, config.dest_path)
                  = GetOk(MappedValue(config, ProjectSource(h, el.n, config).val))

\* C14: array_map returns one fresh object per input element, in input order
\* (one for a single object), each holding the element's projection at
\* dest_path, or the element's fields when dest_path is empty.
C14_OnePerElement ==
    \A k \in 1..Len(tresult) :
        IsArrayMap(k) =>
            /\ tresult[k].err = ""
            /\ tresult[k].val.t = "arr"
            /\ LET out == tresult[k].h[tresult[k].val.n].e IN
                 /\ Len(out) = Len(ElementsIn(k))
                 /\ \A i \in 1..Len(out) : ProjectionOf(k, ElementsIn(k)[i], out[i])

\* call k is an entity_lookup of a non-empty ID in one of the two tables
IsLookup(k) ==
    /\ k <= Len(tresult)
    /\ tcall[k].mapping.TransformType = "entity_lookup"
    /\ tcall[k].mapping.TransformConfig.valid
    /\ tcall[k].mapping.TransformConfig.entity_type \in {S_manufacturer, S_category}
    /\ Sprintv(tcall[k].value) # <<>>

\* the table call k queries
TableOf(k) ==
    IF tcall[k].mapping.TransformConfig.entity_type = S_manufacturer
    THEN sideTables.manufacturer ELSE sideTables.category

\* the lookup of call k resolves nothing: the query fails, no row has the ID,
\* or the row has no such property
Unresolved(k) ==
    \/ ~sideTables.up
    \/ Sprintv(tcall[k].value) \notin DOMAIN TableOf(k)
    \/ tcall[k].mapping.TransformConfig.property
         \notin DOMAIN TableOf(k)[Sprintv(tcall[k].value)]

\* C15: an entity_lookup that resolves nothing (no record, no such property, or
\* a failing query) returns the original ID and no error.
C15_LookupFailsOpen ==
    \A k \in 1..Len(tresult) :
        (IsLookup(k) /\ Unresolved(k)) =>
            /\ tresult[k].err = ""
            /\ tresult[k].val = Str(Sprintv(tcall[k].value))

\* call k has transform type conditional; the config drawn lists no condition
\* and no default
IsConditional(k) ==
    /\ k <= Len(tresult)
    /\ tcall[k].mapping.TransformType = "conditional"
    /\ tcall[k].mapping.TransformConfig.valid

\* C16: a conditional rule returns the result of its first matching condition,
\* else its default, else the input unchanged; with no condition and no default
\* configured that is the input, and no error.
C16_ConditionalPassesThrough ==
    \A k \in 1..Len(tresult) :
        IsConditional(k) =>
            /\ tresult[k].err = ""
            /\ tresult[k].val = tcall[k].value

\* call k is a media_map with a decodable config on an array of records
IsMediaMap(k) ==
    /\ k <= Len(tresult)
    /\ tcall[k].mapping.TransformType = "media_map"
    /\ tcall[k].mapping.TransformConfig.valid
    /\ tcall[k].value.t = "arr"
    /\ \A i \in 1..Len(tcall[k].h[tcall[k].value.n].e) :
           tcall[k].h[tcall[k].value.n].e[i].t = "map"

\* the string a record holds under key ("" when it has none)
RecordString(h, a, key) == IF HasField(h, a, key) THEN h[a].m[key].s ELSE <<>>

\* url starts with an HTTP scheme
AbsoluteURL(url) ==
    \/ HasPrefix(url, <<"h", "t", "t", "p", ":", "/", "/">>)
    \/ HasPrefix(url, <<"h", "t", "t", "p", "s", ":", "/", "/">>)

\* source is url as it is, or url behind base_url and one "/"; it is prefixed
\* only when base_url is set and url starts with no HTTP scheme
SourceOf(source, base, url) ==
    /\ source \in {url, base \o url, base \o <<"/">> \o url}
    /\ source # url => (base # <<>> /\ ~AbsoluteURL(url))
    /\ (base = <<>> \/ AbsoluteURL(url)) => source = url
    /\ (base # <<>> /\ ~HasPrefix(url, S_http)) =>
           /\ HasPrefix(source, base)
           /\ Len(source) = Len(url) + Len(base) + (IF HasSuffix(base, <<"/">>) THEN 0 ELSE 1)

IsRequest(op, id) == derr'.n = derr.n + 1 /\ derr'.op = op /\ derr'.id = id

\* C18: DeleteDataflow of a dataflow with at least one MigrationLog returns an
\* error and deletes neither the dataflow nor any field mapping, and in a
\* sequential run every MigrationLog refers to a stored dataflow.
C18_DeleteRefusedWithLogs ==
    /\ [](\A m \in 1..Len(logs) : GetDataflowOk(logs[m].DataflowID))
    /\ [][\A id \in 1..MaxDataflows :
            (IsRequest("delete", id) /\ \E m \in 1..Len(logs) : logs[m].DataflowID = id) =>
                /\ derr'.err = "dataflow_has_migration_logs"
                /\ dataflows' = dataflows
                /\ fieldMappings' = fieldMappings]_vars

\* the delete of dataflow 1, which has a log and a field mapping, was refused
\* and both are still stored
C18_Witness ==
    /\ derr.op = "delete" /\ derr.id = 1
    /\ derr.err = "dataflow_has_migration_logs"
    /\ \E m \in 1..Len(logs) : logs[m].DataflowID = 1
    /\ GetDataflowOk(1)
    /\ Len(ListFieldMappings(1)) > 0

\* C19: UpdateDataflow of a dataflow with at least one MigrationLog leaves its
\* stored type, status and source and destination connectors as they were.
C19_ImmutableOnceLogged ==
    [][\A id \in 1..MaxDataflows :
         (IsRequest("update", id) /\ \E m \in 1..Len(logs) : logs[m].DataflowID = id) =>
             /\ dataflows'[id].Type = dataflows[id].Type
             /\ dataflows'[id].Status = dataflows[id].Status
             /\ dataflows'[id].SourceConnectorID = dataflows[id].SourceConnectorID
             /\ dataflows'[id].DestConnectorID = dataflows[id].DestConnectorID]_vars

\* the connectors of dataflow d exist, the source a shopware connector, the
\* destination a shopify connector, and they are two connectors
FixedRoles(d) ==
    /\ d.SourceConnectorID \in DOMAIN Connectors
    /\ d.DestConnectorID \in DOMAIN Connectors
    /\ Connectors[d.SourceConnectorID].Type = "shopware"
    /\ Connectors[d.DestConnectorID].Type = "shopify"
    /\ d.SourceConnectorID # d.DestConnectorID

\* C20: after any sequence of CreateDataflow and UpdateDataflow every stored
\* dataflow has a shopware source connector and a different, shopify
\* destination connector.
C20_ConnectorRoles ==
    \A id \in DOMAIN dataflows : ~dataflows[id].Deleted => FixedRoles(dataflows[id])

\* C21: after any sequence of CreateFieldMapping and UpdateFieldMapping every
\* stored FieldMapping has a non-empty source_field and a non-empty dest_field.
C21_StoredFieldsNonEmpty ==
    \A i \in 1..Len(fieldMappings) :
        fieldMappings[i].SourceField # <<>> /\ fieldMappings[i].DestField # <<>>

\* C22: when TransformData reports an error, ExecuteDataflow leaves the
\* MigrationLog failed with that error in its error message, and the run sends
\* no create request to the destination platform.
C22_TransformErrorFailsRun ==
    /\ []((pc = "done" /\ result.Error # NoErr) =>
             /\ logs[execLog].Status = "failed"
             /\ logs[execLog].ErrorMessage.err = result.Error
             /\ logs[execLog].DestIdentifier = ""
             /\ sent = 0)
    /\ [][(pc \in {"returned", "failed_call"} /\ pc' = "done" /\ result.Error # NoErr) =>
             sent' = sent]_vars

\* a finished run whose second rule was a required field the document lacks,
\* after the first rule had written: the log is failed and nothing was sent
C22_Witness ==
    /\ pc = "done"
    /\ Len(trace) = 2
    /\ trace[1].wrote
    /\ result.Error.kind = "required_field_not_found"
    /\ logs[execLog].Status = "failed"
    /\ logs[execLog].ErrorMessage = Message("Error in transformation", result.Error)
    /\ sent = 0

\* a path segment without brackets
PlainSeg(seg) == \A j \in 1..Len(seg) : seg[j] \notin {"[", "]"}

\* a path segment of the form key[digits]
IndexedSeg(seg) ==
    \E k \in 2..(Len(seg) - 2) :
        /\ seg[k] = "[" /\ seg[Len(seg)] = "]"
        /\ PlainSeg(SubSeq(seg, 1, k - 1))
        /\ \A j \in (k + 1)..(Len(seg) - 1) : IsDigit(seg[j])

SegKey(seg) == SubSeq(seg, 1, Index(seg, "["))
SegIndex(seg) == DecimalValue(SubSeq(seg, Index(seg, "[") + 2, Len(seg) - 1))

\* the sequence the root of tree h holds under key, empty when it holds none
SeqAt(h, key) ==
    IF HasField(h, 1, key) /\ h[1].m[key].t = "arr" THEN h[h[1].m[key].n].e ELSE <<>>

EmptyMapping(h, v) == v.t = "map" /\ DOMAIN h[v.n].m = {}

FirstSeg(path) == Split(path, ".")[1]

\* a successful set whose first segment is indexed and finds its sequence
\* missing or shorter than index+1
GrowsSequence ==
    /\ acall.op = "set" /\ acall.err = ""
    /\ IndexedSeg(FirstSeg(acall.path))
    /\ Len(SeqAt(acall.before, SegKey(FirstSeg(acall.path))))
           < SegIndex(FirstSeg(acall.path)) + 1

\* C23: setNestedValue on an indexed segment whose sequence is missing or
\* shorter than index+1 grows the sequence to exactly index+1 elements, keeps
\* the elements it had, and fills every new slot other than the written target
\* with an empty mapping.
C23_GrowsWithEmptyMappings ==
    GrowsSequence =>
        /\ Len(SeqAt(atree, SegKey(FirstSeg(acall.path))))
               = SegIndex(FirstSeg(acall.path)) + 1
        /\ \A j \in 1..Len(SeqAt(acall.before, SegKey(FirstSeg(acall.path)))) :
               SeqAt(atree, SegKey(FirstSeg(acall.path)))[j]
                   = SeqAt(acall.before, SegKey(FirstSeg(acall.path)))[j]
        /\ \A j \in (Len(SeqAt(acall.before, SegKey(FirstSeg(acall.path)))) + 1)
                        ..SegIndex(FirstSeg(acall.path)) :
               EmptyMapping(atree, SeqAt(atree, SegKey(FirstSeg(acall.path)))[j])

\* the sequence grows to index+1 elements and keeps the elements it had
C23_GrowsAndKeeps ==
    GrowsSequence =>
        /\ Len(SeqAt(atree, SegKey(FirstSeg(acall.path))))
               = SegIndex(FirstSeg(acall.path)) + 1
        /\ \A j \in 1..Len(SeqAt(acall.before, SegKey(FirstSeg(acall.path)))) :
               SeqAt(atree, SegKey(FirstSeg(acall.path)))[j]
                   = SeqAt(acall.before, SegKey(FirstSeg(acall.path)))[j]

Segments(path) == Split(path, ".")

\* every segment is a key or key[digits]
WellFormed(path) ==
    \A i \in 1..Len(Segments(path)) :
        /\ Segments(path)[i] # <<>>
        /\ PlainSeg(Segments(path)[i]) \/ IndexedSeg(Segments(path)[i])

RECURSIVE ShapeConflict(_, _, _, _)

\* the element an indexed segment that is not the last one descends into
ElementConflict(h, q, index, segs, i) ==
    IF index >= Len(q) \/ q[index + 1] = Nil THEN FALSE
    ELSE IF q[index + 1].t # "map" THEN TRUE
    ELSE ShapeConflict(h, q[index + 1].n, segs, i + 1)

\* a value already present on the path from the mapping at cur, from segment i
\* on, has the wrong shape: a non-mapping under a plain segment that is not the
\* last, a non-sequence under an indexed segment, or a non-mapping element of
\* the sequence of an indexed segment that is not the last
ShapeConflict(h, cur, segs, i) ==
    IF PlainSeg(segs[i])
    THEN IF i = Len(segs) \/ ~HasField(h, cur, segs[i]) THEN FALSE
         ELSE IF h[cur].m[segs[i]].t # "map" THEN TRUE
         ELSE ShapeConflict(h, h[cur].m[segs[i]].n, segs, i + 1)
    ELSE IF ~HasField(h, cur, SegKey(segs[i])) THEN FALSE
         ELSE IF h[cur].m[SegKey(segs[i])].t # "arr" THEN TRUE
         ELSE IF i = Len(segs) THEN FALSE
         ELSE ElementConflict(h, h[h[cur].m[SegKey(segs[i])].n].e, SegIndex(segs[i]),
                              segs, i)

\* C24: for a well-formed path setNestedValue returns an error if and only if
\* a value already present on the path has the wrong shape; in every other
\* case it succeeds.
C24_ErrorIffShapeConflict ==
    (acall.op = "set" /\ WellFormed(acall.path)) =>
        (acall.err # "" <=> ShapeConflict(acall.before, 1, Segments(acall.path), 1))

\* an error of a well-formed set is always a wrong shape on the path
C24_ErrorOnlyOnConflict ==
    (acall.op = "set" /\ WellFormed(acall.path) /\ acall.err # "") =>
        ShapeConflict(acall.before, 1, Segments(acall.path), 1)

Found(v) == [found |-> TRUE, val |-> v, why |-> ""]
NotFound(why) == [found |-> FALSE, val |-> Nil, why |-> why]

RECURSIVE Resolved(_, _, _, _)

\* the sequence under an indexed segment, and the element its index names
ResolvedElement(h, v, index, segs, i) ==
    IF v.t # "arr" THEN NotFound("not_a_sequence")
    ELSE IF index >= Len(h[v.n].e) THEN NotFound("out_of_range")
    ELSE Resolved(h, h[v.n].e[index + 1], segs, i + 1)

\* the descent from value cur, segment by segment from segment i: a plain
\* segment names an existing key of a mapping, an indexed segment a key that
\* holds a sequence with 0 <= index < length
Resolved(h, cur, segs, i) ==
    IF i > Len(segs) THEN Found(cur)
    ELSE IF cur.t # "map" THEN NotFound("not_a_mapping")
    ELSE IF PlainSeg(segs[i])
         THEN IF ~HasField(h, cur.n, segs[i]) THEN NotFound("missing_key")
              ELSE Resolved(h, h[cur.n].m[segs[i]], segs, i + 1)
    ELSE IF IndexedSeg(segs[i])
         THEN IF ~HasField(h, cur.n, SegKey(segs[i])) THEN NotFound("missing_key")
              ELSE ResolvedElement(h, h[cur.n].m[SegKey(segs[i])], SegIndex(segs[i]),
                                   segs, i)
    ELSE NotFound("malformed")

\* the call returned what the descent r finds, and reports a missing key and an
\* out-of-range index as different errors
Reports(call, r) ==
    /\ call.err = "" <=> r.found
    /\ r.found => call.val = r.val
    /\ r.why = "missing_key" => call.err \in {"field_not_found", "not_an_array"}
    /\ (r.why = "missing_key" /\ PlainSeg(Last(Segments(call.path)))
          /\ Len(Segments(call.path)) = 1) => call.err = "field_not_found"
    /\ r.why = "out_of_range" => call.err = "index_out_of_bounds"

\* TransformData handles the failed lookup as a source that was not found: a
\* required rule ends the run with "required field not found", an optional
\* rule is skipped or uses its default, and the loop goes on without an error
SourceNotFound(call) ==
    IF call.rule.IsRequired
    THEN call.step = Step("abort",
                          Err("required_field_not_found", call.rule.SourceField, ""),
                          FALSE, Nil)
    ELSE /\ call.step.outcome = "next"
         /\ call.step.Error = NoErr
         /\ call.step.wrote <=> call.rule.DefaultValue # <<>>

\* C25: getNestedValue returns a value if and only if, segment by segment,
\* every plain segment names an existing key of a mapping and every indexed
\* segment names a key holding a sequence with 0 <= index < length; a missing
\* key and an out-of-range index are reported as distinct errors, and
\* TransformData treats either one as a source that was not found, not as a
\* fatal error.
C25_GetResolvesOrReports ==
    /\ acall.op \in {"get", "lookup"} =>
           Reports(acall, Resolved(acall.before, MapRef(1), Segments(acall.path), 1))
    /\ (acall.op = "lookup" /\ acall.err \in {"field_not_found", "index_out_of_bounds"}) =>
           SourceNotFound(acall)

\* an optional rule whose indexed source is out of range in the document D1
\* was skipped, and the loop went on
C25_Witness ==
    /\ acall.op = "lookup"
    /\ acall.before = Unmarshal("D1").h
    /\ acall.path = <<"v", "[", "1", "]", ".", "s">>
    /\ acall.err = "index_out_of_bounds"
    /\ ~acall.rule.IsRequired /\ acall.rule.DefaultValue = <<>>
    /\ acall.step = Step("next", NoErr, FALSE, Nil)

\* C26: with the default product mappings a product whose stock is a JSON
\* number is transformed without error: the rule stock ->
\* variants[0].inventoryQuantity (convert to int) writes the integer value of
\* stock to the destination.
C26_NumericStockConverted ==
    (acall.op = "lookup" /\ acall.rule = DefaultStockMapping /\ acall.val.t = "num") =>
        /\ acall.step.Error = NoErr
        /\ acall.step.outcome = "next"
        /\ acall.step.wrote
        /\ acall.step.transformed = IntV(acall.val.n)

\* the handler's loop leaves the dataflow at the head of the queue
LeavesDataflow == hqueue # <<>> /\ hqueue' # hqueue

\* C27: the dataflows matched by one webhook event are processed
\* independently: a failure to store the log or to hand off the execution for
\* one dataflow does not stop the handler, which goes on with the next
\* dataflow, and changes neither the logs of the other dataflows nor what the
\* handler stores for them.
C27_DataflowsIndependent ==
    /\ [][LeavesDataflow =>
             /\ hqueue' = Tail(hqueue)
             /\ hpc' = IF Len(hqueue) > 1 THEN "create" ELSE "idle"]_vars
    /\ [][(hpc = "create" /\ LeavesDataflow) => logs' = logs]_vars
    /\ [][(hpc = "create" /\ Len(logs') > Len(logs)) =>
             logs' = Append(logs, MigrationLog(Len(logs) + 1, Head(hqueue), "pending",
                                               "src-1", "payload"))]_vars
    /\ [][(hpc = "save" /\ LeavesDataflow) =>
             /\ logs'[hlog.ID].DataflowID = Head(hqueue)
             /\ logs'[hlog.ID].Status =
                    IF hexec.err # NoMessage THEN "failed" ELSE "in_progress"
             /\ \A m \in DOMAIN logs \ {hlog.ID} : logs'[m] = logs[m]]_vars

\* one event matched dataflows 1 and 2: the handoff failed for dataflow 1, and
\* dataflow 2 still got its log and its execution
C27_Witness ==
    /\ hpc = "idle"
    /\ Len(logs) = 2
    /\ logs[1].DataflowID = 1 /\ handled[1] = "failed" /\ logs[1].Status = "failed"
    /\ logs[2].DataflowID = 2 /\ handled[2] = "ok" /\ logs[2].Status = "in_progress"
    /\ started = {2}

\* C28: in every reachable state the status of every MigrationLog is one of
\* pending, in_progress, success and failed, whatever status the
\* UpdateMigrationStatus callback receives.
C28_StatusIsDeclared ==
    \A m \in DOMAIN logs : logs[m].Status \in {"pending", "in_progress", "success", "failed"}

\* C29: in every reachable state a MigrationLog has a completion timestamp if
\* and only if its status is success or failed, whether the callback or the
\* webhook handler set that status.
C29_CompletedIffTerminal ==
    \A m \in DOMAIN logs : (logs[m].CompletedAt # 0) <=> (logs[m].Status \in Terminal)

\* C30: under any interleaving of DeleteDataflow with a webhook that creates a
\* MigrationLog for the same dataflow, every stored MigrationLog references an
\* existing dataflow: the delete does not complete once its log-count check has
\* passed and a log has since been created.
C30_LogsReferenceDataflows ==
    /\ [](\A m \in DOMAIN logs : GetDataflowOk(logs[m].DataflowID))
    /\ [][(del.at = "dataflow" /\ del'.at = "idle") => ~DeleteRefused(del.id)]_vars

====
